---- MODULE Spec2Model ----
(***************************************************************************)
(* Model of the complexity-inference and suggestion engine:                *)
(*   ComplexityDetector (utils/complexityDetector.ts) and                  *)
(*   AIOptimizer        (utils/aiOptimizer.ts).                            *)
(*                                                                         *)
(* Source text is kept as text.  A TLA+ string stands for a JavaScript     *)
(* string, SubSeq(s, i, i) is its i-th character (1-based), and the        *)
(* regular expressions of the source are written out as matchers over     *)
(* characters.  One analyze() call is a run of the state machine: Init is  *)
(* the state after the constructor, and every call analyze() makes is one  *)
(* action, in the order of the source.                                     *)
(***************************************************************************)
EXTENDS Integers, Sequences, FiniteSets, TLC

(***************************************************************************)
(* Bounds of the model.                                                    *)
(***************************************************************************)
MaxLines == 4
MaxNestLines == 5
MaxPyLines == 3
MaxSuggestions == 3
MaxRepeatLines == 2
MaxSortLines == 5
MaxFillLines == 22
MaxBlockLines == 4
MaxPyNestLines == 3
MaxRuleLines == 2
MaxPySearchLines == 3
MaxSearchLines == 7

(***************************************************************************)
(* Characters and strings.                                                 *)
(***************************************************************************)
LowerLetters ==
  {"a","b","c","d","e","f","g","h","i","j","k","l","m",
   "n","o","p","q","r","s","t","u","v","w","x","y","z"}

UpperToLower ==
  [c \in {"A","B","C","D","E","F","G","H","I","J","K","L","M",
          "N","O","P","Q","R","S","T","U","V","W","X","Y","Z"} |->
     CASE c = "A" -> "a" [] c = "B" -> "b" [] c = "C" -> "c" [] c = "D" -> "d"
       [] c = "E" -> "e" [] c = "F" -> "f" [] c = "G" -> "g" [] c = "H" -> "h"
       [] c = "I" -> "i" [] c = "J" -> "j" [] c = "K" -> "k" [] c = "L" -> "l"
       [] c = "M" -> "m" [] c = "N" -> "n" [] c = "O" -> "o" [] c = "P" -> "p"
       [] c = "Q" -> "q" [] c = "R" -> "r" [] c = "S" -> "s" [] c = "T" -> "t"
       [] c = "U" -> "u" [] c = "V" -> "v" [] c = "W" -> "w" [] c = "X" -> "x"
       [] c = "Y" -> "y" [] c = "Z" -> "z"]

DigitChars == <<"0","1","2","3","4","5","6","7","8","9">>

Digits == {DigitChars[k] : k \in 1..10}

\* the character at 1-based position i, "" outside the string
CharAt(s, i) == IF i >= 1 /\ i <= Len(s) THEN SubSeq(s, i, i) ELSE ""

\* \w of the regular expressions
IsWordChar(c) == c \in LowerLetters \/ c \in DOMAIN UpperToLower \/ c \in Digits \/ c = "_"

\* \s of the regular expressions, and the characters String.trim removes
IsSpace(c) == c \in {" ", "\t", "\r", "\n", "\f"}

IsDigit(c) == c \in Digits

\* String.prototype.includes
Includes(s, t) == \E i \in 1..(Len(s) - Len(t) + 1) : SubSeq(s, i, i + Len(t) - 1) = t

\* does the literal t stand at position i of s
LiteralAt(s, i, t) == i >= 1 /\ i + Len(t) - 1 <= Len(s) /\ SubSeq(s, i, i + Len(t) - 1) = t

RECURSIVE ToLowerCase(_)
\* String.prototype.toLowerCase
ToLowerCase(s) ==
  IF Len(s) = 0 THEN ""
  ELSE LET c == SubSeq(s, 1, 1)
       IN (IF c \in DOMAIN UpperToLower THEN UpperToLower[c] ELSE c) \o ToLowerCase(Tail(s))

RECURSIVE SkipSpaces(_, _)
\* \s* forwards from position i: the first position >= i that holds no white space
SkipSpaces(s, i) == IF i <= Len(s) /\ IsSpace(CharAt(s, i)) THEN SkipSpaces(s, i + 1) ELSE i

RECURSIVE SkipSpacesBack(_, _)
\* \s* backwards from position i: the last position <= i that holds no white space
SkipSpacesBack(s, i) == IF i >= 1 /\ IsSpace(CharAt(s, i)) THEN SkipSpacesBack(s, i - 1) ELSE i

RECURSIVE WordEnd(_, _)
\* \w+ forwards from position i (a word character): the last position of the run
WordEnd(s, i) == IF IsWordChar(CharAt(s, i + 1)) THEN WordEnd(s, i + 1) ELSE i

\* String.prototype.trim
Trim(s) ==
  LET a == SkipSpaces(s, 1)
      b == SkipSpacesBack(s, Len(s))
  IN IF a > b THEN "" ELSE SubSeq(s, a, b)

RECURSIVE Split(_, _)
\* String.prototype.split(sep) for a one-character separator: never empty
Split(s, sep) ==
  IF \E i \in 1..Len(s) : CharAt(s, i) = sep
  THEN LET i == CHOOSE k \in 1..Len(s) :
                  CharAt(s, k) = sep /\ \A m \in 1..(k - 1) : CharAt(s, m) # sep
       IN <<SubSeq(s, 1, i - 1)>> \o Split(SubSeq(s, i + 1, Len(s)), sep)
  ELSE <<s>>

RECURSIVE Join(_, _)
\* Array.prototype.join(sep)
Join(ls, sep) ==
  IF Len(ls) = 0 THEN ""
  ELSE IF Len(ls) = 1 THEN ls[1]
  ELSE ls[1] \o sep \o Join(Tail(ls), sep)

\* Array.prototype.slice(from, to) with 0-based, end-exclusive indexes
Slice(ls, from, to) == SubSeq(ls, from + 1, to)

Min(a, b) == IF a < b THEN a ELSE b

Max(a, b) == IF a > b THEN a ELSE b

RECURSIVE NatToString(_)
\* the decimal text a template literal produces for a non-negative integer
NatToString(n) ==
  IF n < 10 THEN DigitChars[n + 1]
  ELSE NatToString(n \div 10) \o DigitChars[(n % 10) + 1]

DigitValue(c) == CHOOSE k \in 0..9 : DigitChars[k + 1] = c

RECURSIVE ParseDigits(_, _)
\* parseInt of a text of decimal digits, acc is the value read so far
ParseDigits(s, acc) ==
  IF Len(s) = 0 THEN acc
  ELSE ParseDigits(Tail(s), acc * 10 + DigitValue(SubSeq(s, 1, 1)))

RECURSIVE DigitsEnd(_, _)
\* \d+ forwards from position i (a digit): the last position of the run
DigitsEnd(s, i) == IF IsDigit(CharAt(s, i + 1)) THEN DigitsEnd(s, i + 1) ELSE i

\* \b at the gap before position i
WordBoundary(s, i) == IsWordChar(CharAt(s, i - 1)) # IsWordChar(CharAt(s, i))

(***************************************************************************)
(* The loop-header recogniser, isLoop, the same in both classes.           *)
(***************************************************************************)
LoopKeywords == {"for", "while"}

\* /\b(for|while)\s*\(/
CFamilyLoopRegex(line) ==
  \E i \in 1..Len(line), k \in LoopKeywords :
     /\ LiteralAt(line, i, k)
     /\ WordBoundary(line, i)
     /\ CharAt(line, SkipSpaces(line, i + Len(k))) = "("

\* /\b(for|while)\b.*:/
PythonLoopRegex(line) ==
  \E i \in 1..Len(line), k \in LoopKeywords :
     /\ LiteralAt(line, i, k)
     /\ WordBoundary(line, i)
     /\ WordBoundary(line, i + Len(k))
     /\ \E j \in (i + Len(k))..Len(line) : CharAt(line, j) = ":"

\* own keys of the object literal loopPatterns
LoopPatternKeys == {"cpp", "java", "python"}

\* keys every object literal inherits from Object.prototype: the lookup
\* yields a value that is truthy and has no method named test
InheritedKeys ==
  {"constructor", "__proto__", "hasOwnProperty", "isPrototypeOf",
   "propertyIsEnumerable", "toLocaleString", "toString", "valueOf",
   "__defineGetter__", "__defineSetter__", "__lookupGetter__", "__lookupSetter__"}

\* loopPatterns[this.language]
LoopPatternLookup(language) ==
  IF language \in {"cpp", "java"} THEN "cfamily"
  ELSE IF language = "python" THEN "python"
  ELSE IF language \in InheritedKeys THEN "inherited"
  ELSE "undefined"

\* pattern.test(line) is a call of undefined: a TypeError
isLoopThrows(language) == LoopPatternLookup(language) = "inherited"

\* pattern ? pattern.test(line) : false
isLoop(language, line) ==
  CASE LoopPatternLookup(language) = "cfamily" -> CFamilyLoopRegex(line)
    [] LoopPatternLookup(language) = "python" -> PythonLoopRegex(line)
    [] OTHER -> FALSE

(***************************************************************************)
(* ComplexityDetector: the per-line recognisers.                           *)
(***************************************************************************)

\* /\w+\s*\([^)]*\w+\s*[-+]\s*\d+[^)]*\)/ : an opening parenthesis at p that
\* follows a word, a sign at m that follows a word and is followed by a
\* digit, no closing parenthesis between p and m, and one after the digit
RecursiveCallRegex(line) ==
  \E p \in 2..Len(line) :
     /\ CharAt(line, p) = "("
     /\ IsWordChar(CharAt(line, SkipSpacesBack(line, p - 1)))
     /\ \E m \in (p + 2)..Len(line) :
           /\ CharAt(line, m) \in {"-", "+"}
           /\ SkipSpacesBack(line, m - 1) > p
           /\ IsWordChar(CharAt(line, SkipSpacesBack(line, m - 1)))
           /\ \A q \in (p + 1)..(m - 1) : CharAt(line, q) # ")"
           /\ IsDigit(CharAt(line, SkipSpaces(line, m + 1)))
           /\ \E c \in (SkipSpaces(line, m + 1) + 1)..Len(line) : CharAt(line, c) = ")"

isRecursiveCall(line) ==
  \/ Includes(line, "function_name(")
  \/ Includes(line, "def ")
  \/ RecursiveCallRegex(line)

\* /in\s+\w+/
InWordRegex(line) ==
  \E i \in 1..Len(line) :
     /\ LiteralAt(line, i, "in")
     /\ IsSpace(CharAt(line, i + 2))
     /\ IsWordChar(CharAt(line, SkipSpaces(line, i + 2)))

isCollectionOperation(line) ==
  \/ Includes(line, ".find(")
  \/ Includes(line, ".filter(")
  \/ Includes(line, ".map(")
  \/ Includes(line, ".forEach(")
  \/ InWordRegex(line)
  \/ Includes(line, ".contains(")
  \/ Includes(line, ".indexOf(")

\* /\[.*\]/
BracketRegex(line) ==
  \E i \in 1..Len(line), j \in 1..Len(line) :
     i < j /\ CharAt(line, i) = "[" /\ CharAt(line, j) = "]"

\* /\[.*\]\s*=/
BracketAssignRegex(line) ==
  \E i \in 1..Len(line), j \in 1..Len(line) :
     /\ i < j
     /\ CharAt(line, i) = "["
     /\ CharAt(line, j) = "]"
     /\ CharAt(line, SkipSpaces(line, j + 1)) = "="

isHashOperation(line) ==
  \/ BracketAssignRegex(line)
  \/ Includes(line, ".get(")
  \/ Includes(line, ".put(")
  \/ BracketRegex(line)

\* the placeholder implementation: always 0
getNestedLoopDepth(line) == 0

\* getLineComplexity with the keyed-lookup rule tested before the others
getLineComplexityLookupFirst(language, line) ==
  IF isHashOperation(line)
  THEN [notation |-> "O(1)", reason |-> "Hash table lookup/insertion", severity |-> "low"]
  ELSE IF isLoop(language, line)
  THEN [notation |-> "O(n)", reason |-> "Linear loop iteration", severity |-> "medium"]
  ELSE IF isRecursiveCall(line)
  THEN [notation |-> "O(2^n)", reason |-> "Potential exponential recursion", severity |-> "high"]
  ELSE IF isCollectionOperation(line)
  THEN [notation |-> "O(n)", reason |-> "Collection iteration or search", severity |-> "medium"]
  ELSE [notation |-> "O(1)", reason |-> "Constant time operation", severity |-> "low"]

getLineComplexity(language, line) ==
  IF getNestedLoopDepth(line) > 1
  THEN [notation |-> "O(n^" \o NatToString(getNestedLoopDepth(line)) \o ")",
        reason |-> "Nested loop with depth " \o NatToString(getNestedLoopDepth(line)),
        severity |-> "high"]
  ELSE IF isLoop(language, line)
  THEN [notation |-> "O(n)", reason |-> "Linear loop iteration", severity |-> "medium"]
  ELSE IF isRecursiveCall(line)
  THEN [notation |-> "O(2^n)", reason |-> "Potential exponential recursion", severity |-> "high"]
  ELSE IF isCollectionOperation(line)
  THEN [notation |-> "O(n)", reason |-> "Collection iteration or search", severity |-> "medium"]
  ELSE IF isHashOperation(line)
  THEN [notation |-> "O(1)", reason |-> "Hash table lookup/insertion", severity |-> "low"]
  ELSE [notation |-> "O(1)", reason |-> "Constant time operation", severity |-> "low"]

\* analyzeLines that makes no record for a blank line
analyzeLinesSkippingBlank(language, lines) ==
  SelectSeq([index \in 1..Len(lines) |->
               LET complexity == getLineComplexity(language, Trim(lines[index]))
               IN [line |-> index,
                   code |-> lines[index],
                   complexity |-> complexity.notation,
                   reason |-> complexity.reason,
                   severity |-> complexity.severity]],
            LAMBDA record : Trim(record.code) # "")

\* analyzeLines with code: trimmedLine in place of code: line
analyzeLinesTrimmed(language, lines) ==
  [index \in 1..Len(lines) |->
     LET complexity == getLineComplexity(language, Trim(lines[index]))
     IN [line |-> index,
         code |-> Trim(lines[index]),
         complexity |-> complexity.notation,
         reason |-> complexity.reason,
         severity |-> complexity.severity]]

\* this.lines.map((line, index) => ...)
analyzeLines(language, lines) ==
  [index \in 1..Len(lines) |->
     LET complexity == getLineComplexity(language, Trim(lines[index]))
     IN [line |-> index,
         code |-> lines[index],
         complexity |-> complexity.notation,
         reason |-> complexity.reason,
         severity |-> complexity.severity]]

(***************************************************************************)
(* ComplexityDetector: pattern detection.  Line indexes are 0-based as in  *)
(* the source; lines[k + 1] is this.lines[k].                              *)
(***************************************************************************)

RECURSIVE NestedScan(_, _, _, _, _, _, _)
\* the while loop of analyzeNestedStructure; yields the values the
\* variables currentLine and maxDepth hold when the loop is left
NestedScan(language, lines, startLine, currentLine, depth, maxDepth, braceCount) ==
  IF ~(currentLine < Len(lines))
  THEN [currentLine |-> currentLine, maxDepth |-> maxDepth]
  ELSE LET line == Trim(lines[currentLine + 1])
           loop == isLoop(language, line)
           depth1 == IF loop THEN depth + 1 ELSE depth
           maxDepth1 == IF loop THEN Max(maxDepth, depth1) ELSE maxDepth
           braceCount1 == IF Includes(line, "{") THEN braceCount + 1 ELSE braceCount
           braceCount2 == IF Includes(line, "}") THEN braceCount1 - 1 ELSE braceCount1
           depth2 == IF Includes(line, "}") /\ depth1 > 0 THEN depth1 - 1 ELSE depth1
       IN IF braceCount2 = 0 /\ currentLine > startLine
          THEN [currentLine |-> currentLine, maxDepth |-> maxDepth1]
          ELSE NestedScan(language, lines, startLine, currentLine + 1,
                          depth2, maxDepth1, braceCount2)

NoPattern == [type |-> "none"]

\* analyzeNestedStructure with the test maxDepth > 2 in place of maxDepth > 1
analyzeNestedStructureDeeperOnly(language, lines, startLine) ==
  LET scan == NestedScan(language, lines, startLine, startLine, 0, 1, 0)
  IN IF scan.maxDepth > 2
     THEN [type |-> "nested",
           startLine |-> startLine + 1,
           endLine |-> scan.currentLine + 1,
           complexity |-> "O(n^" \o NatToString(scan.maxDepth) \o ")",
           description |-> "Nested loops with depth " \o NatToString(scan.maxDepth),
           impact |-> IF scan.maxDepth > 2 THEN "high" ELSE "medium"]
     ELSE [type |-> "none"]

\* analyzeNestedStructure that reports a pattern for a single loop too
analyzeNestedStructureAnyDepth(language, lines, startLine) ==
  LET scan == NestedScan(language, lines, startLine, startLine, 0, 1, 0)
  IN [type |-> "nested",
      startLine |-> startLine + 1,
      endLine |-> scan.currentLine + 1,
      complexity |-> "O(n^" \o NatToString(scan.maxDepth) \o ")",
      description |-> "Nested loops with depth " \o NatToString(scan.maxDepth),
      impact |-> IF scan.maxDepth > 2 THEN "high" ELSE "medium"]

\* returns a pattern, or NoPattern for null
analyzeNestedStructure(language, lines, startLine) ==
  LET scan == NestedScan(language, lines, startLine, startLine, 0, 1, 0)
  IN IF scan.maxDepth > 1
     THEN [type |-> "nested",
           startLine |-> startLine + 1,
           endLine |-> scan.currentLine + 1,
           complexity |-> "O(n^" \o NatToString(scan.maxDepth) \o ")",
           description |-> "Nested loops with depth " \o NatToString(scan.maxDepth),
           impact |-> IF scan.maxDepth > 2 THEN "high" ELSE "medium"]
     ELSE NoPattern

RecursionPattern(i) ==
  [type |-> "recursion",
   startLine |-> i + 1,
   endLine |-> i + 1,
   complexity |-> "O(2^n)",
   description |-> "Recursive function call detected",
   impact |-> "high"]

RECURSIVE DetectFromRescanning(_, _, _, _)
\* the while loop of detectPatterns with i++ in place of i = nestedPattern.endLine
DetectFromRescanning(language, lines, i, patterns) ==
  IF ~(i < Len(lines)) THEN patterns
  ELSE LET line == Trim(lines[i + 1])
           nestedPattern == IF isLoop(language, line)
                            THEN analyzeNestedStructure(language, lines, i)
                            ELSE NoPattern
       IN IF nestedPattern # NoPattern
          THEN DetectFromRescanning(language, lines, i + 1,
                                    Append(patterns, nestedPattern))
          ELSE DetectFromRescanning(language, lines, i + 1,
                                    IF isRecursiveCall(line)
                                    THEN Append(patterns, RecursionPattern(i))
                                    ELSE patterns)

RECURSIVE DetectFrom(_, _, _, _)
\* the while loop of detectPatterns from index i with the patterns so far
DetectFrom(language, lines, i, patterns) ==
  IF ~(i < Len(lines)) THEN patterns
  ELSE LET line == Trim(lines[i + 1])
           nestedPattern == IF isLoop(language, line)
                            THEN analyzeNestedStructure(language, lines, i)
                            ELSE NoPattern
       IN IF nestedPattern # NoPattern
          THEN DetectFrom(language, lines, nestedPattern.endLine,
                          Append(patterns, nestedPattern))
          ELSE DetectFrom(language, lines, i + 1,
                          IF isRecursiveCall(line)
                          THEN Append(patterns, RecursionPattern(i))
                          ELSE patterns)

detectPatterns(language, lines) == DetectFrom(language, lines, 0, <<>>)

RECURSIVE DetectVisits(_, _, _, _)
\* the values the variable i of detectPatterns takes at the head of its while
\* loop, in order, from index i on
DetectVisits(language, lines, i, visits) ==
  IF ~(i < Len(lines)) THEN visits
  ELSE LET line == Trim(lines[i + 1])
           nestedPattern == IF isLoop(language, line)
                            THEN analyzeNestedStructure(language, lines, i)
                            ELSE NoPattern
       IN IF nestedPattern # NoPattern
          THEN DetectVisits(language, lines, nestedPattern.endLine, Append(visits, i))
          ELSE DetectVisits(language, lines, i + 1, Append(visits, i))

(***************************************************************************)
(* ComplexityDetector: suggestions, educational content, overall score.    *)
(* A suggestion keeps every field of the Suggestion interface; example is  *)
(* "" where the source sets none.  The text of a canned example that takes *)
(* no parameter is held by its first line.                                 *)
(***************************************************************************)

ReduceNestedSuggestion(pattern) ==
  [line |-> pattern.startLine,
   type |-> "optimization",
   title |-> "Reduce nested loop complexity",
   description |-> "Consider using hash maps, early termination, or breaking the problem into smaller functions.",
   example |-> "Use a hash map for O(1) lookups instead of nested loops for searching.",
   priority |-> "high"]

\* OptimizeRecursionSuggestion under the title the Optimizer uses for memoization
OptimizeRecursionSuggestionRetitled(pattern) ==
  [line |-> pattern.startLine,
   type |-> "algorithm",
   title |-> "Implement memoization for recursive function",
   description |-> "Consider using memoization, dynamic programming, or iterative approaches.",
   example |-> "Add a cache to store previously computed results.",
   priority |-> "high"]

OptimizeRecursionSuggestion(pattern) ==
  [line |-> pattern.startLine,
   type |-> "algorithm",
   title |-> "Optimize recursion",
   description |-> "Consider using memoization, dynamic programming, or iterative approaches.",
   example |-> "Add a cache to store previously computed results.",
   priority |-> "high"]

SimplifySuggestion(lineRecord) ==
  [line |-> lineRecord.line,
   type |-> "refactor",
   title |-> "Simplify complex operation",
   description |-> "This line contributes significantly to overall complexity.",
   example |-> "",
   priority |-> "medium"]

RECURSIVE PatternSuggestions(_)
\* patterns.forEach(pattern => ...) of generateSuggestions
PatternSuggestions(patterns) ==
  IF Len(patterns) = 0 THEN <<>>
  ELSE LET pattern == Head(patterns)
       IN (IF pattern.type = "nested" /\ pattern.impact = "high"
           THEN <<ReduceNestedSuggestion(pattern)>> ELSE <<>>)
          \o (IF pattern.type = "recursion"
              THEN <<OptimizeRecursionSuggestion(pattern)>> ELSE <<>>)
          \o PatternSuggestions(Tail(patterns))

RECURSIVE LineSuggestions(_, _, _)
\* lineAnalysis.forEach(line => ...) of generateSuggestions, from record k
LineSuggestions(lineAnalysis, k, suggestions) ==
  IF k > Len(lineAnalysis) THEN suggestions
  ELSE LineSuggestions(lineAnalysis, k + 1,
         IF /\ lineAnalysis[k].severity = "high"
            /\ ~(\E s \in 1..Len(suggestions) : suggestions[s].line = lineAnalysis[k].line)
         THEN Append(suggestions, SimplifySuggestion(lineAnalysis[k]))
         ELSE suggestions)

\* generateSuggestions whose fallback looks for an existing suggestion with the
\* same line and title, which no pattern suggestion has
generateSuggestionsKeyedByTitle(lineAnalysis, patterns) ==
  LET highs == SelectSeq(lineAnalysis, LAMBDA record : record.severity = "high")
  IN PatternSuggestions(patterns)
       \o [k \in 1..Len(highs) |-> SimplifySuggestion(highs[k])]

generateSuggestions(lineAnalysis, patterns) ==
  LineSuggestions(lineAnalysis, 1, PatternSuggestions(patterns))

RECURSIVE ConceptsOf(_, _)
\* the Set of concepts generateEducationalContent fills, in insertion order
ConceptsOf(patterns, concepts) ==
  IF Len(patterns) = 0 THEN concepts
  ELSE LET name == CASE Head(patterns).type = "nested" -> "Nested Loops"
                     [] Head(patterns).type = "recursion" -> "Recursion"
                     [] OTHER -> ""
       IN ConceptsOf(Tail(patterns),
            IF name = "" \/ (\E k \in 1..Len(concepts) : concepts[k] = name)
            THEN concepts ELSE Append(concepts, name))

\* explanations and examples are fixed texts keyed by the concept names
generateEducationalContent(patterns) ==
  LET concepts == ConceptsOf(patterns, <<>>)
  IN [concepts |-> Append(concepts, "Big O Notation")]

\* pattern.complexity.match(/n\^(\d+)/)?.[1] || '2'
ExponentText(complexity) ==
  LET starts == {i \in 1..Len(complexity) :
                   LiteralAt(complexity, i, "n^") /\ IsDigit(CharAt(complexity, i + 2))}
  IN IF starts = {} THEN "2"
     ELSE LET i == CHOOSE k \in starts : \A m \in starts : k <= m
          IN SubSeq(complexity, i + 2, DigitsEnd(complexity, i + 2))

RECURSIVE ScoreFoldFirstLabelWins(_, _, _)
\* ScoreFold with every branch guarded the way the O(n) branch is: the label
\* is set only while it is still O(1)
ScoreFoldFirstLabelWins(patterns, maxComplexity, score) ==
  IF Len(patterns) = 0 THEN [maxComplexity |-> maxComplexity, score |-> score]
  ELSE LET complexity == Head(patterns).complexity
           exponent == ParseDigits(ExponentText(complexity), 0)
           keep == maxComplexity # "O(1)"
       IN IF Includes(complexity, "n^")
          THEN ScoreFoldFirstLabelWins(Tail(patterns),
                 IF keep THEN maxComplexity ELSE "O(n^" \o NatToString(exponent) \o ")",
                 score - exponent * 20)
          ELSE IF complexity = "O(2^n)"
          THEN ScoreFoldFirstLabelWins(Tail(patterns),
                 IF keep THEN maxComplexity ELSE "O(2^n)", score - 40)
          ELSE IF complexity = "O(n log n)"
          THEN ScoreFoldFirstLabelWins(Tail(patterns),
                 IF keep THEN maxComplexity ELSE "O(n log n)", score - 15)
          ELSE IF complexity = "O(n)" /\ maxComplexity = "O(1)"
          THEN ScoreFoldFirstLabelWins(Tail(patterns), "O(n)", score - 10)
          ELSE ScoreFoldFirstLabelWins(Tail(patterns), maxComplexity, score)

RECURSIVE ScoreFold(_, _, _)
\* patterns.forEach(pattern => ...) of calculateOverallComplexity
ScoreFold(patterns, maxComplexity, score) ==
  IF Len(patterns) = 0 THEN [maxComplexity |-> maxComplexity, score |-> score]
  ELSE LET complexity == Head(patterns).complexity
           exponent == ParseDigits(ExponentText(complexity), 0)
       IN IF Includes(complexity, "n^")
          THEN ScoreFold(Tail(patterns), "O(n^" \o NatToString(exponent) \o ")",
                         score - exponent * 20)
          ELSE IF complexity = "O(2^n)"
          THEN ScoreFold(Tail(patterns), "O(2^n)", score - 40)
          ELSE IF complexity = "O(n log n)"
          THEN ScoreFold(Tail(patterns), "O(n log n)", score - 15)
          ELSE IF complexity = "O(n)" /\ maxComplexity = "O(1)"
          THEN ScoreFold(Tail(patterns), "O(n)", score - 10)
          ELSE ScoreFold(Tail(patterns), maxComplexity, score)

\* calculateOverallComplexity without Math.max(0, score)
calculateOverallComplexityUnclamped(patterns) ==
  LET folded == ScoreFold(patterns, "O(1)", 100)
  IN [time |-> folded.maxComplexity,
      space |-> "O(1)",
      score |-> folded.score]

calculateOverallComplexity(patterns) ==
  LET folded == ScoreFold(patterns, "O(1)", 100)
  IN [time |-> folded.maxComplexity,
      space |-> "O(1)",
      score |-> Max(0, folded.score)]

(***************************************************************************)
(* ComplexityDetector: merge of the two suggestion lists.                  *)
(***************************************************************************)

\* `${suggestion.line}-${suggestion.title}`
SuggestionKey(suggestion) == NatToString(suggestion.line) \o "-" \o suggestion.title

RECURSIVE FilterSeen(_, _)
\* suggestions.filter(...) with the Set seen
FilterSeen(suggestions, seen) ==
  IF Len(suggestions) = 0 THEN <<>>
  ELSE LET key == SuggestionKey(Head(suggestions))
       IN IF key \in seen
          THEN FilterSeen(Tail(suggestions), seen)
          ELSE <<Head(suggestions)>> \o FilterSeen(Tail(suggestions), seen \cup {key})

\* const priorityOrder = { high: 3, medium: 2, low: 1 }
priorityOrder(priority) ==
  CASE priority = "high" -> 3
    [] priority = "medium" -> 2
    [] priority = "low" -> 1

\* the comparator with a and b exchanged: low before high
ComparePriorityAscending(a, b) == priorityOrder(a.priority) - priorityOrder(b.priority)

\* the comparator of the sort: negative when a goes first
ComparePriority(a, b) == priorityOrder(b.priority) - priorityOrder(a.priority)

RECURSIVE InsertStable(_, _)
\* put x into a sorted list behind every element that does not go after it
InsertStable(sorted, x) ==
  IF Len(sorted) = 0 THEN <<x>>
  ELSE IF ComparePriority(Head(sorted), x) <= 0
  THEN <<Head(sorted)>> \o InsertStable(Tail(sorted), x)
  ELSE <<x>> \o sorted

RECURSIVE SortStable(_, _)
\* Array.prototype.sort with the comparator: a stable sort (ECMAScript 2019)
SortStable(list, sorted) ==
  IF Len(list) = 0 THEN sorted
  ELSE SortStable(Tail(list), InsertStable(sorted, Head(list)))

\* deduplicateSuggestions without the filter
deduplicateSuggestionsUnfiltered(suggestions) == SortStable(suggestions, <<>>)

deduplicateSuggestions(suggestions) == SortStable(FilterSeen(suggestions, {}), <<>>)

(***************************************************************************)
(* AIOptimizer: helper recognisers.  Indexes are 0-based as in the source. *)
(***************************************************************************)
NestedLoopWindow == 20
LoopContextWindow == 10
FibonacciWindow == 10
TailRecursionWindow == 15
LookupWindow == 3
SortedWindow == 5
BubbleSortWindow == 8
SelectionSortWindow == 10
ConcatenationWindow == 5
SpaceWindow == 5

RECURSIVE HasNestedScan(_, _, _, _, _)
\* the for loop of hasNestedLoop from index i
HasNestedScan(language, lines, startIndex, i, braceCount) ==
  IF ~(i < Min(startIndex + NestedLoopWindow, Len(lines))) THEN FALSE
  ELSE LET line == Trim(lines[i + 1])
           braceCount1 == IF Includes(line, "{") THEN braceCount + 1 ELSE braceCount
           braceCount2 == IF Includes(line, "}") THEN braceCount1 - 1 ELSE braceCount1
       IN IF braceCount2 > 0 /\ isLoop(language, line) /\ i > startIndex THEN TRUE
          ELSE IF braceCount2 = 0 /\ i > startIndex THEN FALSE
          ELSE HasNestedScan(language, lines, startIndex, i + 1, braceCount2)

hasNestedLoop(language, lines, startIndex) ==
  HasNestedScan(language, lines, startIndex, startIndex, 0)

\* lines.slice(from, min(from + window, lines.length)) as a set of 1-based positions
WindowFrom(lines, from, window) == (from + 1)..Min(from + window, Len(lines))

getLoopContext(lines, startIndex) ==
  [isSearching |->
     \E k \in WindowFrom(lines, startIndex, LoopContextWindow) :
        LET line == ToLowerCase(lines[k])
        IN Includes(line, "==") \/ Includes(line, "find") \/ Includes(line, "search"),
   isMatrixOperation |->
     \E k \in WindowFrom(lines, startIndex, LoopContextWindow) :
        LET line == ToLowerCase(lines[k])
        IN Includes(line, "[i][j]") \/ Includes(line, "matrix") \/ Includes(line, "grid")]

isRecursiveFunction(line) ==
  \/ Includes(line, "def ")
  \/ Includes(line, "function ")
  \/ (Includes(line, "(") /\ Includes(line, ")") /\ Includes(line, "{"))

\* the first alternative of the name pattern at position i: (?:def|function)\s+(\w+)
NameAfterKeyword(line, i) ==
  LET hits == {k \in {"def", "function"} :
                 /\ LiteralAt(line, i, k)
                 /\ IsSpace(CharAt(line, i + Len(k)))
                 /\ IsWordChar(CharAt(line, SkipSpaces(line, i + Len(k))))}
  IN IF hits = {} THEN ""
     ELSE LET k == CHOOSE h \in hits : TRUE
              w == SkipSpaces(line, i + Len(k))
          IN SubSeq(line, w, WordEnd(line, w))

\* the second alternative at position i: (\w+)\s*\(
NameBeforeParen(line, i) ==
  IF /\ IsWordChar(CharAt(line, i))
     /\ CharAt(line, SkipSpaces(line, WordEnd(line, i) + 1)) = "("
  THEN SubSeq(line, i, WordEnd(line, i))
  ELSE ""

RECURSIVE NameMatchFrom(_, _)
\* line.match(/(?:def|function)\s+(\w+)|(\w+)\s*\(/): the leftmost match,
\* the first alternative tried first; "" when nothing matches
NameMatchFrom(line, i) ==
  IF i > Len(line) THEN ""
  ELSE IF NameAfterKeyword(line, i) # "" THEN NameAfterKeyword(line, i)
  ELSE IF NameBeforeParen(line, i) # "" THEN NameBeforeParen(line, i)
  ELSE NameMatchFrom(line, i + 1)

extractFunctionName(line) ==
  IF NameMatchFrom(line, 1) # "" THEN NameMatchFrom(line, 1) ELSE "function"

JoinWindow(lines, startIndex, window) ==
  Join(Slice(lines, startIndex, Min(startIndex + window, Len(lines))), " ")

isFibonacciPattern(lines, startIndex) ==
  LET functionBody == JoinWindow(lines, startIndex, FibonacciWindow)
  IN \/ Includes(functionBody, "fibonacci")
     \/ (Includes(functionBody, "n-1") /\ Includes(functionBody, "n-2"))

canOptimizeToTailRecursion(lines, startIndex) ==
  \E k \in WindowFrom(lines, startIndex, TailRecursionWindow) :
     /\ Includes(lines[k], "return")
     /\ Includes(lines[k], "(")
     /\ ~Includes(lines[k], "+")
     /\ ~Includes(lines[k], "*")

hasArrayInsertionAtBeginning(line) ==
  \/ Includes(line, ".insert(0")
  \/ Includes(line, ".unshift(")
  \/ Includes(line, "insert(arr.begin()")

hasFrequentArrayLookups(lines, index) ==
  LET context == (Max(0, index - LookupWindow) + 1)..Min(Len(lines), index + LookupWindow)
      lookups == {k \in context :
                    \/ Includes(lines[k], ".find(")
                    \/ Includes(lines[k], ".indexOf(")
                    \/ Includes(lines[k], "in ")}
  IN Cardinality(lookups) >= 2

hasSetOperationsOnArray(line) ==
  /\ (Includes(line, "unique") \/ Includes(line, "distinct"))
  /\ (Includes(line, "array") \/ Includes(line, "list") \/ Includes(line, "vector"))

isLinearSearchInSortedArray(language, lines, index) ==
  LET context == (Max(0, index - SortedWindow) + 1)..Min(Len(lines), index + SortedWindow)
      hasSortedComment ==
        \E k \in context :
           \/ Includes(ToLowerCase(lines[k]), "sorted")
           \/ Includes(ToLowerCase(lines[k]), "ascending")
      hasLinearSearch ==
        Includes(lines[index + 1], "==") /\ isLoop(language, lines[index + 1])
  IN hasLinearSearch /\ hasSortedComment

hasSubstringSearch(line) ==
  \/ Includes(line, ".find(")
  \/ Includes(line, ".indexOf(")
  \/ Includes(line, "substring")
  \/ Includes(line, "strstr")

\* isBubbleSort without the swap / j+1 / nested-loop alternative
isBubbleSortByNameOnly(language, lines, index) ==
  LET context == JoinWindow(lines, index, BubbleSortWindow)
  IN Includes(context, "bubble")

isBubbleSort(language, lines, index) ==
  LET context == JoinWindow(lines, index, BubbleSortWindow)
  IN \/ Includes(context, "bubble")
     \/ (/\ Includes(context, "swap")
         /\ Includes(context, "j+1")
         /\ hasNestedLoop(language, lines, index))

isSelectionSort(language, lines, index) ==
  LET context == JoinWindow(lines, index, SelectionSortWindow)
  IN \/ Includes(context, "selection")
     \/ (/\ Includes(context, "min")
         /\ Includes(context, "swap")
         /\ hasNestedLoop(language, lines, index))

hasStringConcatenationInLoop(language, lines, index) ==
  /\ isLoop(language, lines[index + 1])
  /\ \E k \in WindowFrom(lines, index, ConcatenationWindow) :
        /\ Includes(lines[k], "+=")
        /\ (Includes(lines[k], "\"") \/ Includes(lines[k], "'"))

\* a || b && c
hasCharacterByCharacterBuilding(line) ==
  \/ Includes(line, "charAt")
  \/ (Includes(line, "[i]") /\ Includes(line, "string"))

hasUnnecessaryArrayCopy(line) ==
  \/ Includes(line, ".copy()")
  \/ Includes(line, ".clone()")
  \/ Includes(line, "Arrays.copyOf")
  \/ Includes(line, "memcpy")

hasSpaceInefficiency(lines, index) ==
  \E k \in WindowFrom(lines, index, SpaceWindow) :
     /\ Includes(lines[k], "new ")
     /\ (Includes(lines[k], "[n]") \/ Includes(lines[k], "vector<"))

(***************************************************************************)
(* AIOptimizer: the example templates that take the function name.         *)
(***************************************************************************)
getMemoizationExample(functionName) ==
  "// Add memoization:\nunordered_map<int, int> memo;\n\nint " \o functionName
  \o "(int n) {\n    if (memo.find(n) != memo.end()) {\n        return memo[n];\n    }\n"
  \o "    if (n <= 1) return n;\n    memo[n] = " \o functionName \o "(n-1) + "
  \o functionName \o "(n-2);\n    return memo[n];\n}"

getTailRecursionExample(functionName) ==
  "// Convert to tail recursion:\nint " \o functionName
  \o "Helper(int n, int acc) {\n    if (n <= 1) return acc;\n    return " \o functionName
  \o "Helper(n - 1, acc * n);\n}\n\nint " \o functionName \o "(int n) {\n    return "
  \o functionName \o "Helper(n, 1);\n}"

(***************************************************************************)
(* AIOptimizer: the seven recogniser families.  Each ...At operator is the *)
(* body of the family's for loop at index i.                               *)
(***************************************************************************)
Suggestion(line, type, title, description, example, priority) ==
  [line |-> line, type |-> type, title |-> title,
   description |-> description, example |-> example, priority |-> priority]

RECURSIVE Flatten(_)
\* suggestions.push(...) of every element in order
Flatten(lists) == IF Len(lists) = 0 THEN <<>> ELSE Head(lists) \o Flatten(Tail(lists))

When(cond, suggestion) == IF cond THEN <<suggestion>> ELSE <<>>

NestedLoopsAt(language, lines, i) ==
  IF isLoop(language, Trim(lines[i + 1])) /\ hasNestedLoop(language, lines, i)
  THEN When(getLoopContext(lines, i).isSearching,
            Suggestion(i + 1, "optimization", "Replace nested loop search with hash map",
              "Convert O(n^2) nested loop search to O(n) using a hash map for constant-time lookups.",
              "// Instead of nested loops:", "high"))
       \o When(getLoopContext(lines, i).isMatrixOperation,
            Suggestion(i + 1, "algorithm", "Optimize matrix operations",
              "Consider cache-friendly iteration patterns or specialized matrix algorithms.",
              "// Cache-friendly matrix traversal:", "medium"))
  ELSE <<>>

analyzeNestedLoops(language, lines) ==
  Flatten([k \in 1..Len(lines) |-> NestedLoopsAt(language, lines, k - 1)])

RecursionPatternsAt(lines, i) ==
  IF isRecursiveFunction(Trim(lines[i + 1]))
  THEN LET functionName == extractFunctionName(Trim(lines[i + 1]))
       IN When(isFibonacciPattern(lines, i),
               Suggestion(i + 1, "algorithm", "Implement memoization for recursive function",
                 "Add memoization to avoid redundant calculations and reduce time complexity from O(2^n) to O(n).",
                 getMemoizationExample(functionName), "high"))
          \o When(canOptimizeToTailRecursion(lines, i),
               Suggestion(i + 1, "optimization", "Convert to tail recursion or iterative approach",
                 "Optimize stack usage by converting to tail recursion or an iterative solution.",
                 getTailRecursionExample(functionName), "medium"))
  ELSE <<>>

analyzeRecursionPatterns(lines) ==
  Flatten([k \in 1..Len(lines) |-> RecursionPatternsAt(lines, k - 1)])

DataStructureUsageAt(lines, i) ==
  When(hasArrayInsertionAtBeginning(Trim(lines[i + 1])),
       Suggestion(i + 1, "optimization", "Use deque for efficient front insertions",
         "Array insertions at the beginning are O(n). Consider using a deque or linked list for O(1) front insertions.",
         "// Instead of array front insertion:", "medium"))
  \o When(hasFrequentArrayLookups(lines, i),
       Suggestion(i + 1, "optimization", "Replace array with hash map for faster lookups",
         "Convert O(n) array searches to O(1) hash map lookups for better performance.",
         "// Replace array lookup:", "high"))
  \o When(hasSetOperationsOnArray(Trim(lines[i + 1])),
       Suggestion(i + 1, "optimization", "Use Set data structure for unique elements",
         "Set operations on arrays are inefficient. Use a Set data structure for O(1) add/remove/contains operations.",
         "// Instead of array for unique elements:", "medium"))

analyzeDataStructureUsage(lines) ==
  Flatten([k \in 1..Len(lines) |-> DataStructureUsageAt(lines, k - 1)])

SearchPatternsAt(language, lines, i) ==
  When(isLinearSearchInSortedArray(language, lines, i),
       Suggestion(i + 1, "algorithm", "Use binary search for sorted arrays",
         "Replace O(n) linear search with O(log n) binary search for sorted data.",
         "// Replace linear search:", "high"))
  \o When(hasSubstringSearch(Trim(lines[i + 1])),
       Suggestion(i + 1, "algorithm", "Consider KMP algorithm for string matching",
         "For repeated string searches, KMP algorithm provides O(n+m) complexity instead of O(n*m).",
         "// For repeated string matching, use KMP:", "medium"))

analyzeSearchPatterns(language, lines) ==
  Flatten([k \in 1..Len(lines) |-> SearchPatternsAt(language, lines, k - 1)])

SortingPatternsAt(language, lines, i) ==
  When(isBubbleSort(language, lines, i),
       Suggestion(i + 1, "algorithm", "Replace bubble sort with efficient sorting algorithm",
         "Bubble sort has O(n^2) complexity. Use quicksort, mergesort, or built-in sort functions for O(n log n) performance.",
         "// Instead of bubble sort O(n^2):", "high"))
  \o When(isSelectionSort(language, lines, i),
       Suggestion(i + 1, "algorithm", "Upgrade from selection sort to merge sort",
         "Selection sort is O(n^2). Consider merge sort or heap sort for guaranteed O(n log n) performance.",
         "// Implement merge sort O(n log n):", "high"))

analyzeSortingPatterns(language, lines) ==
  Flatten([k \in 1..Len(lines) |-> SortingPatternsAt(language, lines, k - 1)])

StringOperationsAt(language, lines, i) ==
  When(hasStringConcatenationInLoop(language, lines, i),
       Suggestion(i + 1, "optimization", "Use StringBuilder for string concatenation in loops",
         "String concatenation in loops creates O(n^2) complexity. Use StringBuilder or string arrays for O(n) performance.",
         "// Instead of string concatenation:", "high"))
  \o When(hasCharacterByCharacterBuilding(Trim(lines[i + 1])),
       Suggestion(i + 1, "optimization", "Optimize character-by-character string operations",
         "Consider using character arrays or StringBuilder for efficient string manipulation.",
         "// Instead of string concatenation:", "medium"))

analyzeStringOperations(language, lines) ==
  Flatten([k \in 1..Len(lines) |-> StringOperationsAt(language, lines, k - 1)])

MemoryOptimizationsAt(lines, i) ==
  When(hasUnnecessaryArrayCopy(Trim(lines[i + 1])),
       Suggestion(i + 1, "optimization", "Avoid unnecessary array copying",
         "Array copying is O(n) operation. Consider using array slicing or in-place operations when possible.",
         "// Instead of creating new array:", "medium"))
  \o When(hasSpaceInefficiency(lines, i),
       Suggestion(i + 1, "optimization", "Optimize space complexity",
         "Consider space-time trade-offs. Sometimes using O(1) extra space instead of O(n) can be beneficial.",
         "// Space-optimized approach:", "low"))

analyzeMemoryOptimizations(lines) ==
  Flatten([k \in 1..Len(lines) |-> MemoryOptimizationsAt(lines, k - 1)])

\* the constructor lower-cases the tag again; the analysis it is handed is
\* stored and never read
generateAISuggestions(code, languageArg) ==
  LET language == ToLowerCase(languageArg)
      lines == Split(code, "\n")
  IN analyzeNestedLoops(language, lines)
     \o analyzeRecursionPatterns(lines)
     \o analyzeDataStructureUsage(lines)
     \o analyzeSearchPatterns(language, lines)
     \o analyzeSortingPatterns(language, lines)
     \o analyzeStringOperations(language, lines)
     \o analyzeMemoryOptimizations(lines)

(***************************************************************************)
(* The state of one analyze() call.                                        *)
(***************************************************************************)
VARIABLES
  code,              \* constructor argument: the source text
  language,          \* constructor argument: the language tag
  thisLanguage,      \* this.language
  thisLines,         \* this.lines
  pc,                \* the call of analyze() that runs next, "done" or "threw"
  lineByLine,        \* const lineByLine
  patterns,          \* const patterns
  basicSuggestions,  \* const basicSuggestions
  educational,       \* const educational
  overall,           \* const overall
  aiSuggestions,     \* const aiSuggestions
  suggestions,       \* uniqueSuggestions, the suggestions of the result
  earlier,           \* history: the first analysis that returned, with its inputs
  inputCode,         \* CodeInput: const [code, setCode] = useState('')
  selectedLanguage,  \* CodeInput: const [selectedLanguage, ...] = useState('cpp')
  isAnalyzing,       \* App: const [isAnalyzing, setIsAnalyzing] = useState(false)
  analysis,          \* App: const [analysis, setAnalysis] = useState(null)
  pending,           \* the calls of App.handleAnalyze suspended at the await
  delivered          \* history: the arguments of the call that resumed last

\* the state of the two components
app == <<inputCode, selectedLanguage, isAnalyzing, analysis, pending, delivered>>

vars == <<code, language, thisLanguage, thisLines, pc, lineByLine, patterns,
          basicSuggestions, educational, overall, aiSuggestions, suggestions,
          earlier, inputCode, selectedLanguage, isAnalyzing, analysis, pending,
          delivered>>

NotYet == [time |-> "", space |-> "", score |-> 100]

\* no analysis has returned yet
NoEarlier == [returned |-> FALSE]

\* useState<ComplexityAnalysis | null>(null)
NoAnalysis == [shown |-> FALSE]

\* no call of App.handleAnalyze has resumed yet
NoDelivery == [any |-> FALSE]

\* the two components as first rendered
Mounted ==
  /\ inputCode = ""
  /\ selectedLanguage = "cpp"
  /\ isAnalyzing = FALSE
  /\ analysis = NoAnalysis
  /\ pending = <<>>
  /\ delivered = NoDelivery

(***************************************************************************)
(* Inputs.                                                                 *)
(***************************************************************************)
ForHeader == "for(i=0;i<n;i++){"
SearchBody == "  if(arr[i][j]==t) f=1;"
CloseBrace == "}"
FibonacciCall == "  return fibonacci(n-1)+fibonacci(n-2);"
SwapBody == "  if(a[j]>a[j+1]) swap(a[j],a[j+1]);"
IfHeader == "  if(x){"

CFamilyCatalog == {ForHeader, SearchBody, CloseBrace, FibonacciCall}

PyDef == "def fibonacci(n):"
PyIf == "    if n <= 1:"
PyCall == "    return fibonacci(n-1) + fibonacci(n-2)"
PyFor == "for i in range(n):"
PyFor2 == "  for j in range(n):"
PyFor3 == "    for k in range(n):"
PyRec == "      return f(n-1)"
PyTest == "    if a[i] == b[j]:"

PythonCatalog == {PyDef, PyIf, PyCall, PyFor}

NestCatalog == {ForHeader, SearchBody, CloseBrace}

Languages == {"cpp", "Java", "ruby", "constructor"}

CFamilyLanguages == {"cpp", "Java"}

PythonLanguages == {"python", "Python"}

\* the texts of 1..maxLen catalogue lines, and the empty text
CodesOver(catalog, maxLen) ==
  {Join(ls, "\n") : ls \in UNION {[1..n -> catalog] : n \in 1..maxLen}} \cup {""}

\* the state the constructor leaves, before analyze() is called
Constructed(c, l) ==
  /\ code = c
  /\ language = l
  /\ thisLanguage = ToLowerCase(l)
  /\ thisLines = Split(c, "\n")
  /\ pc = "analyzeLines"
  /\ lineByLine = <<>>
  /\ patterns = <<>>
  /\ basicSuggestions = <<>>
  /\ educational = [concepts |-> <<>>]
  /\ overall = NotYet
  /\ aiSuggestions = <<>>
  /\ suggestions = <<>>

Init ==
  /\ \E c \in CodesOver(CFamilyCatalog, MaxLines), l \in Languages : Constructed(c, l)
  /\ earlier = NoEarlier
  /\ Mounted

InitNested ==
  /\ \E c \in CodesOver(NestCatalog, MaxNestLines), l \in CFamilyLanguages : Constructed(c, l)
  /\ earlier = NoEarlier
  /\ Mounted

InitPython ==
  /\ \E c \in CodesOver(PythonCatalog, MaxPyLines), l \in PythonLanguages : Constructed(c, l)
  /\ earlier = NoEarlier
  /\ Mounted

(***************************************************************************)
(* analyze(), one action per call it makes.                                *)
(***************************************************************************)

\* const lineByLine = this.analyzeLines(); the first isLoop call throws
\* when the tag names an inherited property
AnalyzeLines ==
  /\ pc = "analyzeLines"
  /\ IF isLoopThrows(thisLanguage)
     THEN pc' = "threw" /\ UNCHANGED lineByLine
     ELSE pc' = "detectPatterns" /\ lineByLine' = analyzeLines(thisLanguage, thisLines)
  /\ UNCHANGED <<app, earlier, code, language, thisLanguage, thisLines, patterns, basicSuggestions,
                 educational, overall, aiSuggestions, suggestions>>

\* DetectPatterns for a detector that kept its patterns array in a field and
\* pushed to it on every call
DetectPatternsAccumulating ==
  /\ pc = "detectPatterns"
  /\ patterns' = patterns \o detectPatterns(thisLanguage, thisLines)
  /\ pc' = "generateSuggestions"
  /\ UNCHANGED <<app, earlier, code, language, thisLanguage, thisLines, lineByLine, basicSuggestions,
                 educational, overall, aiSuggestions, suggestions>>

\* const patterns = this.detectPatterns()
DetectPatterns ==
  /\ pc = "detectPatterns"
  /\ patterns' = detectPatterns(thisLanguage, thisLines)
  /\ pc' = "generateSuggestions"
  /\ UNCHANGED <<app, earlier, code, language, thisLanguage, thisLines, lineByLine, basicSuggestions,
                 educational, overall, aiSuggestions, suggestions>>

\* const basicSuggestions = this.generateSuggestions(lineByLine, patterns)
GenerateSuggestions ==
  /\ pc = "generateSuggestions"
  /\ basicSuggestions' = generateSuggestions(lineByLine, patterns)
  /\ pc' = "generateEducationalContent"
  /\ UNCHANGED <<app, earlier, code, language, thisLanguage, thisLines, lineByLine, patterns,
                 educational, overall, aiSuggestions, suggestions>>

\* const educational = this.generateEducationalContent(patterns)
GenerateEducationalContent ==
  /\ pc = "generateEducationalContent"
  /\ educational' = generateEducationalContent(patterns)
  /\ pc' = "calculateOverallComplexity"
  /\ UNCHANGED <<app, earlier, code, language, thisLanguage, thisLines, lineByLine, patterns,
                 basicSuggestions, overall, aiSuggestions, suggestions>>

\* const overall = this.calculateOverallComplexity(patterns)
CalculateOverallComplexity ==
  /\ pc = "calculateOverallComplexity"
  /\ overall' = calculateOverallComplexity(patterns)
  /\ pc' = "generateAISuggestions"
  /\ UNCHANGED <<app, earlier, code, language, thisLanguage, thisLines, lineByLine, patterns,
                 basicSuggestions, educational, aiSuggestions, suggestions>>

\* GenerateAISuggestions for an Optimizer that consults the analysis it was
\* handed and leaves out the lines the Detector has a suggestion for
GenerateAISuggestionsReadingAnalysis ==
  /\ pc = "generateAISuggestions"
  /\ aiSuggestions' =
       SelectSeq(generateAISuggestions(code, thisLanguage),
                 LAMBDA s : \A k \in 1..Len(basicSuggestions) : basicSuggestions[k].line # s.line)
  /\ pc' = "deduplicateSuggestions"
  /\ UNCHANGED <<app, earlier, code, language, thisLanguage, thisLines, lineByLine, patterns,
                 basicSuggestions, educational, overall, suggestions>>

\* new AIOptimizer(this.code, this.language, preliminaryAnalysis).generateAISuggestions()
GenerateAISuggestions ==
  /\ pc = "generateAISuggestions"
  /\ aiSuggestions' = generateAISuggestions(code, thisLanguage)
  /\ pc' = "deduplicateSuggestions"
  /\ UNCHANGED <<app, earlier, code, language, thisLanguage, thisLines, lineByLine, patterns,
                 basicSuggestions, educational, overall, suggestions>>

\* this.deduplicateSuggestions([...basicSuggestions, ...aiSuggestions]) and return
DeduplicateSuggestions ==
  /\ pc = "deduplicateSuggestions"
  /\ suggestions' = deduplicateSuggestions(basicSuggestions \o aiSuggestions)
  /\ pc' = "done"
  /\ UNCHANGED <<app, earlier, code, language, thisLanguage, thisLines, lineByLine, patterns,
                 basicSuggestions, educational, overall, aiSuggestions>>

Next ==
  \/ AnalyzeLines
  \/ DetectPatterns
  \/ GenerateSuggestions
  \/ GenerateEducationalContent
  \/ CalculateOverallComplexity
  \/ GenerateAISuggestions
  \/ DeduplicateSuggestions

\* loop headers, compare-and-swap statements and closing braces
SortCatalog == {ForHeader, SwapBody, CloseBrace}

InitSort ==
  /\ \E c \in CodesOver(SortCatalog, MaxSortLines), l \in CFamilyLanguages : Constructed(c, l)
  /\ earlier = NoEarlier
  /\ Mounted

\* an outer header, a run of statements, an inner header and its statement,
\* with or without the two closing braces
Filler == "  s++;"

LongCode(fill, closed) ==
  Join(<<ForHeader>> \o [k \in 1..fill |-> Filler] \o <<ForHeader, Filler>>
         \o (IF closed THEN <<CloseBrace, CloseBrace>> ELSE <<>>), "\n")

InitLong ==
  /\ \E fill \in 0..MaxFillLines, closed \in BOOLEAN, l \in CFamilyLanguages :
        Constructed(LongCode(fill, closed), l)
  /\ earlier = NoEarlier
  /\ Mounted

\* loop headers, if-blocks and closing braces
BlockCatalog == {ForHeader, IfHeader, CloseBrace}

InitBlocks ==
  /\ \E c \in CodesOver(BlockCatalog, MaxBlockLines), l \in CFamilyLanguages : Constructed(c, l)
  /\ earlier = NoEarlier
  /\ Mounted

\* Python loop headers at three indentation levels and a recursive call
PyNestCatalog == {PyFor, PyFor2, PyFor3, PyRec}

InitPyNest ==
  /\ \E c \in CodesOver(PyNestCatalog, MaxPyNestLines), l \in PythonLanguages :
        Constructed(c, l)
  /\ earlier = NoEarlier
  /\ Mounted

\* lines that several of the per-line recognisers match, and one that none does
CountdownHeader == "for(i=n-1;i>0;i--){"
CallAndLookup == "x=f(n-1)+m.get(k);"
SearchAndStore == "if(a.indexOf(x)>0) b[i]=1;"
PutCall == "m.put(k,v);"
PlainAssignment == "x=1;"

RuleCatalog == {CountdownHeader, CallAndLookup, SearchAndStore, PutCall, PlainAssignment, PyFor}

RuleLanguages == {"cpp", "python"}

InitRules ==
  /\ \E c \in CodesOver(RuleCatalog, MaxRuleLines), l \in RuleLanguages : Constructed(c, l)
  /\ earlier = NoEarlier
  /\ Mounted

\* Python loop headers at two indentation levels and an equality test
PySearchCatalog == {PyFor, PyFor2, PyTest}

InitPySearch ==
  /\ \E c \in CodesOver(PySearchCatalog, MaxPySearchLines), l \in PythonLanguages :
        Constructed(c, l)
  /\ earlier = NoEarlier
  /\ Mounted

\* a loop that tests for equality on line header and, when comment is not 0,
\* a comment that mentions sorted on line comment; statements elsewhere
WhileHeader == "while(a[i]==x){"
SortedComment == "// Sorted input"

SearchCode(n, header, comment) ==
  Join([k \in 1..n |-> IF k = header THEN WhileHeader
                        ELSE IF k = comment THEN SortedComment
                        ELSE Filler], "\n")

InitSearch ==
  /\ \E n \in 1..MaxSearchLines :
        \E header \in 1..n, comment \in 0..n, l \in CFamilyLanguages :
           /\ comment # header
           /\ Constructed(SearchCode(n, header, comment), l)
  /\ earlier = NoEarlier
  /\ Mounted

\* C-family texts under every kind of tag
Spec == Init /\ [][Next]_vars

\* loop headers, statements and closing braces under the C-family tags
SpecNested == InitNested /\ [][Next]_vars

\* Python texts under the python tag
SpecPython == InitPython /\ [][Next]_vars

\* loops whose body is longer than the Optimizer's lookahead
SpecLong == InitLong /\ [][Next]_vars

\* loops and if-blocks under the C-family tags
SpecBlocks == InitBlocks /\ [][Next]_vars

\* indented Python loops under the python tag
SpecPyNest == InitPyNest /\ [][Next]_vars

\* lines on which the per-line rules overlap
SpecRules == InitRules /\ [][Next]_vars

\* Python search loops under the python tag
SpecPySearch == InitPySearch /\ [][Next]_vars

\* an equality-testing loop with a comment at every distance from it
SpecSearch == InitSearch /\ [][Next]_vars

\* sorting-shaped texts under the C-family tags
SpecSort == InitSort /\ [][Next]_vars

(***************************************************************************)
(* deduplicateSuggestions as a function of an arbitrary Suggestion[]: the  *)
(* two lists handed to the merge are drawn from a small set of suggestions *)
(* in which a (line, title) pair can occur with different priorities.      *)
(***************************************************************************)
MergeTitles == {"Optimize recursion", "Implement memoization for recursive function"}

MergeLineNumbers == 1..2

Priorities == {"high", "medium", "low"}

MergeSuggestions ==
  {Suggestion(l, "algorithm", t, "", "", p) :
     l \in MergeLineNumbers, t \in MergeTitles, p \in Priorities}

SuggestionLists == UNION {[1..n -> MergeSuggestions] : n \in 0..MaxSuggestions}

InitMerge ==
  \E all \in SuggestionLists :
    \E k \in 0..Len(all) :
      /\ code = ""
      /\ language = "cpp"
      /\ thisLanguage = "cpp"
      /\ thisLines = <<"">>
      /\ pc = "deduplicateSuggestions"
      /\ lineByLine = <<>>
      /\ patterns = <<>>
      /\ basicSuggestions = SubSeq(all, 1, k)
      /\ educational = [concepts |-> <<>>]
      /\ overall = NotYet
      /\ aiSuggestions = SubSeq(all, k + 1, Len(all))
      /\ suggestions = <<>>
      /\ earlier = NoEarlier
      /\ Mounted

NextMerge == DeduplicateSuggestions

SpecMerge == InitMerge /\ [][NextMerge]_vars

(***************************************************************************)
(* analyze() as a function of its two inputs, for tags that do not throw.  *)
(***************************************************************************)
analyze(c, l) ==
  LET lang == ToLowerCase(l)
      lines == Split(c, "\n")
      lbl == analyzeLines(lang, lines)
      pats == detectPatterns(lang, lines)
      basic == generateSuggestions(lbl, pats)
  IN [overall |-> calculateOverallComplexity(pats),
      lineByLine |-> lbl,
      patterns |-> pats,
      suggestions |-> deduplicateSuggestions(basic \o generateAISuggestions(c, lang)),
      educational |-> generateEducationalContent(pats)]

\* the AnalysisResult the run has returned
Result ==
  [overall |-> overall,
   lineByLine |-> lineByLine,
   patterns |-> patterns,
   suggestions |-> suggestions,
   educational |-> educational]

CFamilyTags == {"cpp", "java"}

PatternsKnown == pc \in {"generateSuggestions", "generateEducationalContent",
                         "calculateOverallComplexity", "generateAISuggestions",
                         "deduplicateSuggestions", "done"}

OverallKnown == pc \in {"generateAISuggestions", "deduplicateSuggestions", "done"}

PatternAt(k) == patterns[k]

TrimmedLine(k) == Trim(thisLines[k])

(***************************************************************************)
(* Repeated analyses: after analyze() has returned, the caller calls it    *)
(* again on the same detector, or constructs a detector for another (or    *)
(* the same) input as App.handleAnalyze does.  The fields code, language   *)
(* and lines are written by the constructor only; what a call computes is  *)
(* held in locals, which the next call on the same detector assigns anew.  *)
(* earlier remembers the first analysis that returned and whether a        *)
(* different input was analysed after it.                                  *)
(***************************************************************************)
RepeatCatalog == {ForHeader, FibonacciCall}

RepeatLanguages == {"java", "python"}

Remember(nextCode, nextLanguage) ==
  IF earlier.returned
  THEN [earlier EXCEPT !.between =
          @ \/ nextCode # earlier.code \/ nextLanguage # earlier.language]
  ELSE [returned |-> TRUE, code |-> code, language |-> language,
        result |-> Result, between |-> FALSE]

InitRepeat ==
  /\ \E c \in CodesOver(RepeatCatalog, MaxRepeatLines), l \in RepeatLanguages :
        Constructed(c, l)
  /\ earlier = NoEarlier
  /\ Mounted

\* detector.analyze() once more on the detector that has just returned
AnalyzeAgain ==
  /\ pc = "done"
  /\ pc' = "analyzeLines"
  /\ earlier' = Remember(code, language)
  /\ UNCHANGED app
  /\ UNCHANGED <<code, language, thisLanguage, thisLines, lineByLine, patterns,
                 basicSuggestions, educational, overall, aiSuggestions, suggestions>>

\* new ComplexityDetector(code, language) for the next request
Construct ==
  /\ pc = "done"
  /\ \E c \in CodesOver(RepeatCatalog, MaxRepeatLines), l \in RepeatLanguages :
        /\ code' = c
        /\ language' = l
        /\ thisLanguage' = ToLowerCase(l)
        /\ thisLines' = Split(c, "\n")
        /\ earlier' = Remember(c, l)
  /\ pc' = "analyzeLines"
  /\ lineByLine' = <<>>
  /\ patterns' = <<>>
  /\ basicSuggestions' = <<>>
  /\ educational' = [concepts |-> <<>>]
  /\ overall' = NotYet
  /\ aiSuggestions' = <<>>
  /\ suggestions' = <<>>
  /\ UNCHANGED app

NextRepeat ==
  \/ AnalyzeLines
  \/ DetectPatterns
  \/ GenerateSuggestions
  \/ GenerateEducationalContent
  \/ CalculateOverallComplexity
  \/ GenerateAISuggestions
  \/ DeduplicateSuggestions
  \/ AnalyzeAgain
  \/ Construct

SpecRepeat == InitRepeat /\ [][NextRepeat]_vars

(***************************************************************************)
(* The Optimizer handed an arbitrary analysis: the constructor of          *)
(* AIOptimizer stores its third argument in this.analysis, and the value   *)
(* here is the preliminary analysis of any text, not only of the text the  *)
(* Optimizer is given.                                                     *)
(***************************************************************************)
InitOptimizer ==
  /\ earlier = NoEarlier
  /\ Mounted
  /\ \E c \in CodesOver(RepeatCatalog, MaxRepeatLines),
        other \in CodesOver(RepeatCatalog, MaxRepeatLines),
        l \in RepeatLanguages :
        /\ code = c
        /\ language = l
        /\ thisLanguage = ToLowerCase(l)
        /\ thisLines = Split(c, "\n")
        /\ lineByLine = analyzeLines(ToLowerCase(l), Split(other, "\n"))
        /\ patterns = detectPatterns(ToLowerCase(l), Split(other, "\n"))
        /\ basicSuggestions =
             generateSuggestions(analyzeLines(ToLowerCase(l), Split(other, "\n")),
                                 detectPatterns(ToLowerCase(l), Split(other, "\n")))
        /\ educational =
             generateEducationalContent(detectPatterns(ToLowerCase(l), Split(other, "\n")))
        /\ overall =
             calculateOverallComplexity(detectPatterns(ToLowerCase(l), Split(other, "\n")))
  /\ pc = "generateAISuggestions"
  /\ aiSuggestions = <<>>
  /\ suggestions = <<>>

NextOptimizer ==
  \/ GenerateAISuggestions
  \/ DeduplicateSuggestions

SpecOptimizer == InitOptimizer /\ [][NextOptimizer]_vars

(***************************************************************************)
(* The page: App keeps analysis and isAnalyzing, CodeInput keeps the text  *)
(* of the text area and the selected language.  Every handler runs to      *)
(* completion on the one JavaScript thread, and the state updates of a     *)
(* click are rendered before the next event is dispatched, so a handler    *)
(* and the render that follows it are one step.  App.handleAnalyze is      *)
(* async: the call suspends at the await with its two arguments and        *)
(* resumes when the 800 ms timer fires.                                    *)
(***************************************************************************)
MaxAppLines == 1

BlankLine == " "

AppCatalog == {BlankLine, ForHeader}

\* SUPPORTED_LANGUAGES.map(lang => lang.id)
SupportedLanguageIds == {"cpp", "java", "python"}

\* sampleCodes, each sample represented by its first line
sampleCodes ==
  [cpp |-> "#include <iostream>",
   java |-> "public class BubbleSort {",
   python |-> PyDef]

\* the texts the text area can hold
AppCodes ==
  CodesOver(AppCatalog, MaxAppLines) \cup {sampleCodes[l] : l \in SupportedLanguageIds}

\* no detector exists until a call resumes, and the detector of a call is
\* local to it: the variables of analyze() are not read or written here
InitApp ==
  /\ Constructed("", "cpp")
  /\ earlier = NoEarlier
  /\ Mounted

\* <textarea onChange={(e) => setCode(e.target.value)}>
ChangeCode ==
  /\ \E c \in AppCodes : inputCode' = c
  /\ UNCHANGED <<selectedLanguage, isAnalyzing, analysis, pending, delivered>>

\* <select onChange={(e) => setSelectedLanguage(e.target.value)}>
ChangeLanguage ==
  /\ \E l \in SupportedLanguageIds : selectedLanguage' = l
  /\ UNCHANGED <<inputCode, isAnalyzing, analysis, pending, delivered>>

\* reader.onload of handleFileUpload: the content of the file and the
\* language detectLanguage returns for it, which the extension of the file
\* name can make any of the three
ReaderOnLoad ==
  /\ \E content \in AppCodes, detectedLang \in SupportedLanguageIds :
        /\ inputCode' = content
        /\ selectedLanguage' = detectedLang
  /\ UNCHANGED <<isAnalyzing, analysis, pending, delivered>>

\* loadSample(lang)
loadSample ==
  /\ \E lang \in SupportedLanguageIds :
        /\ inputCode' = sampleCodes[lang]
        /\ selectedLanguage' = lang
  /\ UNCHANGED <<isAnalyzing, analysis, pending, delivered>>

\* handleClear, behind disabled={!code.trim()}
handleClear ==
  /\ Trim(inputCode) # ""
  /\ inputCode' = ""
  /\ UNCHANGED <<selectedLanguage, isAnalyzing, analysis, pending, delivered>>

\* the Analyze button of a page that greys it out for an empty text only
AnalyzeDisabledForEmptyTextOnly == Trim(inputCode) = ""

\* disabled={!code.trim() || isAnalyzing}
AnalyzeDisabled == Trim(inputCode) = "" \/ isAnalyzing

\* a click on the Analyze button: CodeInput.handleAnalyze calls onAnalyze
\* with the text and the language of this render, and App.handleAnalyze
\* runs up to its await
handleAnalyze ==
  /\ ~AnalyzeDisabled
  /\ Trim(inputCode) # ""
  /\ isAnalyzing' = TRUE
  /\ pending' = Append(pending, [code |-> inputCode, language |-> selectedLanguage])
  /\ UNCHANGED <<inputCode, selectedLanguage, analysis, delivered>>

\* the timer fires and the oldest suspended call resumes with the arguments
\* it was called with: new ComplexityDetector(code, language).analyze(),
\* setAnalysis(result), setIsAnalyzing(false); a throw of analyze() rejects
\* the promise and the two setters are not reached
TimerFires ==
  /\ pending # <<>>
  /\ pending' = Tail(pending)
  /\ LET call == Head(pending)
     IN IF isLoopThrows(ToLowerCase(call.language))
        THEN UNCHANGED <<analysis, isAnalyzing, delivered>>
        ELSE /\ analysis' = analyze(call.code, call.language)
             /\ isAnalyzing' = FALSE
             /\ delivered' = [any |-> TRUE, code |-> call.code, language |-> call.language,
                              edited |-> inputCode # call.code
                                           \/ selectedLanguage # call.language]
  /\ UNCHANGED <<inputCode, selectedLanguage>>

detector == <<code, language, thisLanguage, thisLines, pc, lineByLine, patterns,
              basicSuggestions, educational, overall, aiSuggestions, suggestions,
              earlier>>

NextApp ==
  \/ ChangeCode /\ UNCHANGED detector
  \/ ChangeLanguage /\ UNCHANGED detector
  \/ ReaderOnLoad /\ UNCHANGED detector
  \/ loadSample /\ UNCHANGED detector
  \/ handleClear /\ UNCHANGED detector
  \/ handleAnalyze /\ UNCHANGED detector
  \/ TimerFires /\ UNCHANGED detector

SpecApp == InitApp /\ [][NextApp]_vars

(***************************************************************************)
(* C1.  analyze() returns a result and never throws, for every text and    *)
(* every language tag, tags other than cpp, java and python included.      *)
(* The run with the tag "constructor" refutes it.                          *)
(***************************************************************************)
C1_AnalyzeNeverThrows == pc # "threw"

(***************************************************************************)
(* C2.  Under a tag that is none of cpp, java, python, a line is a loop    *)
(* header exactly when it is one under cpp, and the whole result equals    *)
(* the result for the tag cpp.  A for-header under the tag "ruby" refutes  *)
(* it: the lookup yields undefined and isLoop answers false.               *)
(***************************************************************************)
C2_UnknownTagFallsBackToCFamily ==
  (pc = "done" /\ thisLanguage \notin LoopPatternKeys) =>
     /\ \A k \in 1..Len(thisLines) :
           isLoop(thisLanguage, TrimmedLine(k)) <=> isLoop("cpp", TrimmedLine(k))
     /\ \A k \in 1..Len(lineByLine) :
           (lineByLine[k].reason = "Linear loop iteration") <=> CFamilyLoopRegex(TrimmedLine(k))
     /\ Result = analyze(code, "cpp")

(***************************************************************************)
(* C3.  Every pattern has 1 <= startLine <= endLine <= lineCount, and a    *)
(* nested pattern has depth >= 2.  Two loop headers whose braces are never *)
(* closed refute it: the scan runs off the text and endLine is one more    *)
(* than the number of lines.                                               *)
(***************************************************************************)
NestedDepth(pattern) == ParseDigits(ExponentText(pattern.complexity), 0)

C3_PatternRangesWithinInput ==
  PatternsKnown =>
     \A k \in 1..Len(patterns) :
        /\ 1 <= PatternAt(k).startLine
        /\ PatternAt(k).startLine <= PatternAt(k).endLine
        /\ PatternAt(k).endLine <= Len(Split(code, "\n"))
        /\ (PatternAt(k).type = "nested" => NestedDepth(PatternAt(k)) >= 2)

(***************************************************************************)
(* C4.  Scenario A: a C-family text with one loop header, no nested loop   *)
(* and no line of recursive-call shape is reported with time O(n) and      *)
(* score 90, and some line record has severity medium.  The code reports   *)
(* O(1) and 100: detectPatterns records no pattern for a single loop.      *)
(***************************************************************************)
ScenarioA ==
  /\ thisLanguage \in CFamilyTags
  /\ Cardinality({k \in 1..Len(thisLines) : CFamilyLoopRegex(TrimmedLine(k))}) = 1
  /\ \A k \in 1..Len(thisLines) : ~isRecursiveCall(TrimmedLine(k))

C4_SingleLoopIsLinear ==
  (pc = "done" /\ ScenarioA) =>
     /\ overall.time = "O(n)"
     /\ overall.score = 90
     /\ \E k \in 1..Len(lineByLine) : lineByLine[k].severity = "medium"

(***************************************************************************)
(* C5.  Scenario C: a text that is one function named fibonacci calling    *)
(* itself with n-1 and n-2 yields a recursion pattern O(2^n), score 60 and *)
(* a high-priority memoization suggestion whose example uses the name      *)
(* fibonacci.  The Python form refutes the score: the def line and the     *)
(* line of the calls are both taken for recursive calls, the score is 20.  *)
(***************************************************************************)
MemoizationTitle == "Implement memoization for recursive function"

ScenarioCPython ==
  /\ thisLanguage = "python"
  /\ Len(thisLines) >= 2
  /\ LiteralAt(thisLines[1], 1, "def fibonacci(")
  /\ \A k \in 2..Len(thisLines) :
        /\ ~Includes(thisLines[k], "def ")
        /\ IsSpace(CharAt(thisLines[k], 1))
  /\ \E k \in 2..Len(thisLines) :
        Includes(thisLines[k], "fibonacci(n-1)") /\ Includes(thisLines[k], "fibonacci(n-2)")

C5_FibonacciPenalisedOnce ==
  (pc = "done" /\ ScenarioCPython) =>
     /\ \E k \in 1..Len(patterns) :
           PatternAt(k).type = "recursion" /\ PatternAt(k).complexity = "O(2^n)"
     /\ overall.score = 60
     /\ \E k \in 1..Len(suggestions) :
           /\ suggestions[k].title = MemoizationTitle
           /\ suggestions[k].priority = "high"
           /\ Includes(suggestions[k].example, "fibonacci")

(***************************************************************************)
(* C6.  Scenario B: a C-family text made of an outer for header, an inner  *)
(* for header inside the outer block, a body with an == test on arr[i][j]  *)
(* and the two closing braces yields a nested pattern of depth 2 labelled  *)
(* O(n^2), time O(n^2), score 60, and the final suggestions hold a         *)
(* high-priority 'Replace nested loop search with hash map' at the line of *)
(* the outer header.                                                       *)
(***************************************************************************)
HashMapTitle == "Replace nested loop search with hash map"

\* a statement that opens or closes no block, is no loop header and has
\* no recursive-call shape
PlainStatement(line) ==
  /\ ~Includes(line, "{")
  /\ ~Includes(line, "}")
  /\ ~CFamilyLoopRegex(line)
  /\ ~isRecursiveCall(line)

OpensLoopBlock(line) == CFamilyLoopRegex(line) /\ Includes(line, "{") /\ ~Includes(line, "}")

\* outer header on line 1, inner header on line inner, plain statements
\* elsewhere, one of them the == test, and the two closing braces last
ScenarioBWithInnerAt(inner) ==
  LET n == Len(thisLines)
  IN /\ thisLanguage \in CFamilyTags
     /\ n >= 5
     /\ inner \in 2..(n - 3)
     /\ OpensLoopBlock(TrimmedLine(1))
     /\ OpensLoopBlock(TrimmedLine(inner))
     /\ \A k \in (2..(n - 2)) \ {inner} : PlainStatement(TrimmedLine(k))
     /\ \E k \in (inner + 1)..(n - 2) :
           Includes(thisLines[k], "==") /\ Includes(thisLines[k], "arr[i][j]")
     /\ TrimmedLine(n - 1) = "}"
     /\ TrimmedLine(n) = "}"

ScenarioB == \E inner \in 2..Len(thisLines) : ScenarioBWithInnerAt(inner)

SamePair(a, b) == a.line = b.line /\ a.title = b.title

C7_NoDuplicatePairs ==
  pc = "done" =>
     \A i \in 1..Len(suggestions), j \in 1..Len(suggestions) :
        i # j => ~SamePair(suggestions[i], suggestions[j])

\* the merge was handed a pair twice and has returned
C7_Witness ==
  /\ pc = "done"
  /\ Len(suggestions) >= 2
  /\ Len(suggestions) < Len(basicSuggestions) + Len(aiSuggestions)

(***************************************************************************)
(* C8.  The final list is the reference result: of the Detector's          *)
(* suggestions followed by the Optimizer's, the first occurrence of every  *)
(* (line, title) pair, ordered by descending priority rank (high 3,        *)
(* medium 2, low 1) and, within one rank, by position in the merged list;  *)
(* so adjacent entries have non-increasing rank.                           *)
(***************************************************************************)
Rank(s) == IF s.priority = "high" THEN 3 ELSE IF s.priority = "medium" THEN 2 ELSE 1

MergedInput == basicSuggestions \o aiSuggestions

FirstOccurrences ==
  {i \in 1..Len(MergedInput) : \A j \in 1..(i - 1) : ~SamePair(MergedInput[j], MergedInput[i])}

\* position i of the merged list goes before position j in the reference
GoesBefore(i, j) ==
  \/ Rank(MergedInput[i]) > Rank(MergedInput[j])
  \/ (Rank(MergedInput[i]) = Rank(MergedInput[j]) /\ i < j)

C8_FinalListIsReference ==
  pc = "done" =>
     /\ Len(suggestions) = Cardinality(FirstOccurrences)
     /\ \E f \in [1..Len(suggestions) -> FirstOccurrences] :
           /\ \A k \in 1..Len(suggestions) : suggestions[k] = MergedInput[f[k]]
           /\ \A k \in 1..Len(suggestions), m \in 1..Len(suggestions) :
                 k < m => GoesBefore(f[k], f[m])
     /\ \A k \in 1..(Len(suggestions) - 1) : Rank(suggestions[k]) >= Rank(suggestions[k + 1])

\* the sort moved a lower-ranked Detector entry behind the others, and two
\* entries of one rank, one from each component, kept their order
C8_Witness ==
  /\ pc = "done"
  /\ Len(suggestions) = Len(MergedInput)
  /\ Len(suggestions) >= 3
  /\ suggestions[1] # MergedInput[1]
  /\ \E k \in 1..(Len(suggestions) - 1) :
        /\ Rank(suggestions[k]) = Rank(suggestions[k + 1])
        /\ suggestions[k] = basicSuggestions[Len(basicSuggestions)]
        /\ suggestions[k + 1] = aiSuggestions[1]

(***************************************************************************)
(* C9.  score = max(0, 100 - sum over the patterns of 20*k for a pattern   *)
(* labelled O(n^k) and 40 for one labelled O(2^n)); folding in a further   *)
(* pattern never raises the score; with at least one pattern, time is the  *)
(* label of the last pattern in detection order; space is always O(1).     *)
(***************************************************************************)
\* the k of a label O(n^k), 0 when the label has no such form; a depth is
\* at most the number of lines
PowerOf(label) ==
  LET ks == {k \in 1..(Len(thisLines) + 1) : label = "O(n^" \o NatToString(k) \o ")"}
  IN IF ks = {} THEN 0 ELSE CHOOSE k \in ks : TRUE

Penalty(pattern) ==
  IF pattern.complexity = "O(2^n)" THEN 40 ELSE 20 * PowerOf(pattern.complexity)

RECURSIVE PenaltySum(_)
PenaltySum(ps) == IF Len(ps) = 0 THEN 0 ELSE Penalty(Head(ps)) + PenaltySum(Tail(ps))

C9_ScoreAndTimeFold ==
  OverallKnown =>
     /\ \A k \in 1..Len(patterns) : Penalty(PatternAt(k)) > 0
     /\ overall.score = Max(0, 100 - PenaltySum(patterns))
     /\ \A k \in 0..(Len(patterns) - 1) :
           calculateOverallComplexity(SubSeq(patterns, 1, k + 1)).score
             <= calculateOverallComplexity(SubSeq(patterns, 1, k)).score
     /\ (Len(patterns) > 0 => overall.time = PatternAt(Len(patterns)).complexity)
     /\ overall.space = "O(1)"

\* an exponential pattern followed by a quadratic one: the last one wins
C9_Witness ==
  /\ pc = "done"
  /\ Len(patterns) >= 2
  /\ PatternAt(1).complexity = "O(2^n)"
  /\ PatternAt(Len(patterns)).complexity = "O(n^2)"
  /\ overall.time = "O(n^2)"
  /\ overall.score = 20

(***************************************************************************)
(* C10.  The score is an integer with 0 <= score <= 100, however many      *)
(* patterns are detected.                                                  *)
(***************************************************************************)
C10_ScoreWithinBounds == OverallKnown => overall.score \in 0..100

\* the penalties add up to more than 100 and the score is 0
C10_Witness == pc = "done" /\ PenaltySum(patterns) > 100 /\ overall.score = 0

(***************************************************************************)
(* C11.  lineByLine has exactly as many records as the text has lines (one *)
(* more than it has newline characters); the i-th record has line = i and  *)
(* code equal to the i-th line of the text as written, untrimmed, in the   *)
(* order of the text.                                                      *)
(***************************************************************************)
LinesKnown == pc \notin {"analyzeLines", "threw"}

NewlineCount(text) == Cardinality({i \in 1..Len(text) : CharAt(text, i) = "\n"})

C11_OneRecordPerLine ==
  LinesKnown =>
     /\ Len(lineByLine) = NewlineCount(code) + 1
     /\ Len(lineByLine) = Len(Split(code, "\n"))
     /\ Join([k \in 1..Len(lineByLine) |-> lineByLine[k].code], "\n") = code
     /\ \A i \in 1..Len(lineByLine) :
           /\ lineByLine[i].line = i
           /\ lineByLine[i].code = Split(code, "\n")[i]

\* three records, the second for an indented line whose text is kept as written
C11_Witness ==
  /\ pc = "done"
  /\ Len(lineByLine) = 3
  /\ lineByLine[2].code = SearchBody
  /\ Trim(lineByLine[2].code) # lineByLine[2].code
  /\ lineByLine[1].code # lineByLine[3].code

(***************************************************************************)
(* C12.  Determinism: an analysis of a (code, language) pair returns the   *)
(* same result (line records, patterns, overall, educational content and   *)
(* suggestions in the same order) as the first analysis of that pair did,  *)
(* on the same detector or on a new one, whatever was analysed in between; *)
(* the result is the function analyze of the two inputs.                   *)
(***************************************************************************)
SameInputAsEarlier ==
  /\ earlier.returned
  /\ earlier.code = code
  /\ earlier.language = language

C12_SameInputSameResult ==
  (pc = "done") =>
     /\ (SameInputAsEarlier => Result = earlier.result)
     /\ Result = analyze(code, language)

\* the input of the first analysis is analysed again after a different input,
\* and its result has a pattern and a suggestion
C12_Witness ==
  /\ pc = "done"
  /\ SameInputAsEarlier
  /\ earlier.between
  /\ Len(patterns) >= 1
  /\ Len(suggestions) >= 1
  /\ Len(lineByLine) = 2

(***************************************************************************)
(* C13.  Scenario E: in a C-family text whose first loop header opens a    *)
(* block, with a further loop header inside that block before any closing  *)
(* brace, and with a swap call and j+1 indexing within 8 lines from the    *)
(* outer header, the result has a nested pattern that starts at the outer  *)
(* header and the final suggestions have the bubble-sort suggestion at the *)
(* outer header's line; the merge keeps both.                              *)
(***************************************************************************)
BubbleSortTitle == "Replace bubble sort with efficient sorting algorithm"

ScenarioEAt(outer, inner) ==
  /\ thisLanguage \in CFamilyTags
  /\ outer < inner
  /\ \A k \in 1..(outer - 1) : ~CFamilyLoopRegex(TrimmedLine(k))
  /\ OpensLoopBlock(TrimmedLine(outer))
  /\ \A k \in (outer + 1)..(inner - 1) :
        ~CFamilyLoopRegex(TrimmedLine(k)) /\ ~Includes(TrimmedLine(k), "}")
  /\ CFamilyLoopRegex(TrimmedLine(inner))
  /\ \E k \in outer..Min(outer + BubbleSortWindow - 1, Len(thisLines)) :
        Includes(thisLines[k], "swap")
  /\ \E k \in outer..Min(outer + BubbleSortWindow - 1, Len(thisLines)) :
        Includes(thisLines[k], "j+1")

ScenarioD == code = "" /\ thisLanguage \in LoopPatternKeys

C14_EmptyTextScenario ==
  (pc = "done" /\ ScenarioD) =>
     /\ Len(lineByLine) = 1
     /\ lineByLine[1].line = 1
     /\ lineByLine[1].code = ""
     /\ lineByLine[1].complexity = "O(1)"
     /\ lineByLine[1].severity = "low"
     /\ patterns = <<>>
     /\ overall.time = "O(1)"
     /\ overall.score = 100
     /\ suggestions = <<>>

\* the empty text analysed under the python tag after an analysis that found
\* a pattern
C14_Witness ==
  /\ pc = "done"
  /\ ScenarioD
  /\ thisLanguage = "python"
  /\ earlier.returned
  /\ Len(earlier.result.patterns) >= 1
  /\ Len(lineByLine) = 1

(***************************************************************************)
(* C15.  Per-line rule 1: every line inside a detected nested-loop region  *)
(* of depth d > 1 has the line record label O(n^d) and severity high.      *)
(* Two nested for-headers refute it: getNestedLoopDepth answers 0 for      *)
(* every line, so the headers are labelled O(n) / medium and the body by   *)
(* the later rules.                                                        *)
(***************************************************************************)
C15_NestedRegionLinesLabelled ==
  PatternsKnown =>
     \A k \in 1..Len(patterns) :
        PatternAt(k).type = "nested" =>
           \A i \in PatternAt(k).startLine..Min(PatternAt(k).endLine, Len(lineByLine)) :
              /\ lineByLine[i].complexity = PatternAt(k).complexity
              /\ lineByLine[i].severity = "high"

(***************************************************************************)
(* C16.  The nested-structure scan looks at a bounded window of lines      *)
(* only, so no nested pattern spans more than the window: endLine minus    *)
(* startLine is at most the 20 lines of the lookahead.  An outer loop with *)
(* 22 statements before its inner loop refutes it: analyzeNestedStructure  *)
(* scans until the braces balance or the text ends, and reports [1, 27].   *)
(***************************************************************************)
C16_NestedPatternWithinWindow ==
  PatternsKnown =>
     \A k \in 1..Len(patterns) :
        PatternAt(k).type = "nested" =>
           PatternAt(k).endLine - PatternAt(k).startLine <= NestedLoopWindow

(***************************************************************************)
(* C17.  In a C-family text, when the scan that starts at the first loop   *)
(* header meets a further loop header while its brace counter is above     *)
(* zero, a nested pattern starting at the first header is emitted, however *)
(* many if-blocks open and close between the two headers.  An if-block     *)
(* that closes before the inner header refutes it: the closing brace takes *)
(* the loop depth back to 0, the inner header brings it to 1 only, and no  *)
(* pattern is emitted.                                                     *)
(***************************************************************************)
\* the brace counter of a scan started on line from, after line to
BraceCountAfter(from, to) ==
  Cardinality({u \in from..to : Includes(TrimmedLine(u), "{")})
    - Cardinality({u \in from..to : Includes(TrimmedLine(u), "}")})

FirstLoopHeader(s) ==
  /\ CFamilyLoopRegex(TrimmedLine(s))
  /\ \A k \in 1..(s - 1) : ~CFamilyLoopRegex(TrimmedLine(k))

InnerHeaderInOpenBlock(s, t) ==
  /\ s < t
  /\ CFamilyLoopRegex(TrimmedLine(t))
  /\ \A u \in s..(t - 1) : BraceCountAfter(s, u) > 0

C17_InnerHeaderGivesNestedPattern ==
  (PatternsKnown /\ thisLanguage \in CFamilyTags) =>
     \A s \in 1..Len(thisLines), t \in 1..Len(thisLines) :
        (FirstLoopHeader(s) /\ InnerHeaderInOpenBlock(s, t)) =>
           \E k \in 1..Len(patterns) :
              /\ PatternAt(k).type = "nested"
              /\ PatternAt(k).startLine = s

(***************************************************************************)
(* C18.  In a Python text (colons and indentation, no braces) whose first  *)
(* k >= 2 lines are loop headers, each indented deeper than the one before *)
(* it, the result has one nested pattern that starts on line 1 with        *)
(* complexity O(n^k), impact high when k > 2 and medium when k = 2.  Three *)
(* nested for-loops refute it: with no brace in the text the scan stops on *)
(* the line after its start and reports O(n^2), medium.                    *)
(***************************************************************************)
Indent(line) == SkipSpaces(line, 1) - 1

\* lines 1..k are loop headers of growing indentation and line k + 1, if
\* there is one, is not a further header of the chain
NestedPythonLoops(k) ==
  /\ thisLanguage = "python"
  /\ k >= 2
  /\ k <= Len(thisLines)
  /\ \A i \in 1..k : PythonLoopRegex(TrimmedLine(i))
  /\ \A i \in 1..(k - 1) : Indent(thisLines[i]) < Indent(thisLines[i + 1])
  /\ \A i \in 1..Len(thisLines) : ~Includes(thisLines[i], "{") /\ ~Includes(thisLines[i], "}")
  /\ (k < Len(thisLines) =>
        ~(/\ PythonLoopRegex(TrimmedLine(k + 1))
          /\ Indent(thisLines[k]) < Indent(thisLines[k + 1])))

C18_PythonNestingDepth ==
  PatternsKnown =>
     \A k \in 1..Len(thisLines) :
        NestedPythonLoops(k) =>
           /\ Cardinality({j \in 1..Len(patterns) : PatternAt(j).type = "nested"}) = 1
           /\ \E j \in 1..Len(patterns) :
                 /\ PatternAt(j).type = "nested"
                 /\ PatternAt(j).startLine = 1
                 /\ PatternAt(j).complexity = "O(n^" \o NatToString(k) \o ")"
                 /\ PatternAt(j).impact = (IF k > 2 THEN "high" ELSE "medium")

(***************************************************************************)
(* C19.  Every line for which isRecursiveCall holds has exactly one        *)
(* recursion pattern with startLine = endLine = that line, O(2^n), impact  *)
(* high, wherever the line lies relative to the loop regions.  A call line *)
(* inside a nested-loop region refutes it: detectPatterns resumes after    *)
(* the region and never tests the lines inside it.                         *)
(***************************************************************************)
RecursionPatternsOn(i) ==
  {k \in 1..Len(patterns) :
     /\ PatternAt(k).type = "recursion"
     /\ PatternAt(k).startLine = i
     /\ PatternAt(k).endLine = i
     /\ PatternAt(k).complexity = "O(2^n)"
     /\ PatternAt(k).impact = "high"}

C19_EveryRecursiveLineHasPattern ==
  PatternsKnown =>
     \A i \in 1..Len(thisLines) :
        isRecursiveCall(TrimmedLine(i)) => Cardinality(RecursionPatternsOn(i)) = 1

(***************************************************************************)
(* C20.  Pattern detection is a greedy left-to-right partition: after a    *)
(* nested pattern [s, e] the next line examined is line e + 1; patterns    *)
(* come in strictly increasing startLine order, no two of them share a     *)
(* line, and no line is examined as a pattern start twice (the index of    *)
(* the outer scan grows at every step).                                    *)
(***************************************************************************)
\* 0-based indexes examined by the outer scan of the analysed text
Visits == DetectVisits(thisLanguage, thisLines, 0, <<>>)

\* the index examined right after index i, or the line count when i is the last
VisitAfter(i) ==
  LET later == {Visits[k] : k \in {j \in 1..Len(Visits) : Visits[j] > i}}
  IN IF later = {} THEN Len(thisLines)
     ELSE CHOOSE v \in later : \A w \in later : v <= w

C20_GreedyPartition ==
  PatternsKnown =>
     /\ \A k \in 1..(Len(patterns) - 1) :
           /\ PatternAt(k).startLine < PatternAt(k + 1).startLine
           /\ PatternAt(k).endLine < PatternAt(k + 1).startLine
     /\ \A k \in 1..(Len(Visits) - 1) : Visits[k] < Visits[k + 1]
     /\ \A k \in 1..Len(patterns) :
           /\ \E j \in 1..Len(Visits) : Visits[j] + 1 = PatternAt(k).startLine
           /\ PatternAt(k).type = "nested" =>
                 VisitAfter(PatternAt(k).startLine - 1)
                   = Min(PatternAt(k).endLine, Len(thisLines))

\* a nested pattern on lines 1..2 and, from the line examined next, a
\* recursion pattern on line 3
C20_Witness ==
  /\ pc = "done"
  /\ Len(patterns) = 2
  /\ PatternAt(1).type = "nested"
  /\ PatternAt(1).startLine = 1
  /\ PatternAt(1).endLine = 2
  /\ PatternAt(2).type = "recursion"
  /\ PatternAt(2).startLine = 3
  /\ Visits = <<0, 2>>

(***************************************************************************)
(* C21.  The per-line rules are applied first-match-wins in the order loop *)
(* header (O(n), medium), recursive self-call (O(2^n), high), collection   *)
(* search or iteration (O(n), medium), keyed lookup (O(1), low), fallback  *)
(* (O(1), low): a line that several recognisers match has the label of the *)
(* earliest rule, a line that none matches has O(1) and severity low.      *)
(***************************************************************************)
LabelOf(i) == <<lineByLine[i].complexity, lineByLine[i].severity>>

C21_FirstMatchingRuleWins ==
  LinesKnown =>
     \A i \in 1..Len(lineByLine) :
        LET line == TrimmedLine(i)
            loop == isLoop(thisLanguage, line)
            recursive == isRecursiveCall(line)
            collection == isCollectionOperation(line)
            lookup == isHashOperation(line)
        IN /\ loop => LabelOf(i) = <<"O(n)", "medium">>
           /\ (~loop /\ recursive) => LabelOf(i) = <<"O(2^n)", "high">>
           /\ (~loop /\ ~recursive /\ collection) => LabelOf(i) = <<"O(n)", "medium">>
           /\ (~loop /\ ~recursive /\ ~collection /\ lookup) =>
                 /\ LabelOf(i) = <<"O(1)", "low">>
                 /\ lineByLine[i].reason = "Hash table lookup/insertion"
           /\ (~loop /\ ~recursive /\ ~collection /\ ~lookup) =>
                 /\ LabelOf(i) = <<"O(1)", "low">>
                 /\ lineByLine[i].reason = "Constant time operation"

\* a loop header that is also of recursive-call shape, labelled as a loop,
\* then a call that is also a keyed lookup, labelled as a recursion
C21_Witness ==
  /\ pc = "done"
  /\ Len(lineByLine) = 2
  /\ isLoop(thisLanguage, TrimmedLine(1))
  /\ isRecursiveCall(TrimmedLine(1))
  /\ LabelOf(1) = <<"O(n)", "medium">>
  /\ isRecursiveCall(TrimmedLine(2))
  /\ isHashOperation(TrimmedLine(2))
  /\ LabelOf(2) = <<"O(2^n)", "high">>

(***************************************************************************)
(* C22.  Under each of the tags cpp, java and python: when line L is a     *)
(* loop header, a further loop header lies inside the body of L within the *)
(* 20 lines of the lookahead, and the 10 lines from L on contain ==, find  *)
(* or search, the Optimizer emits the high-priority suggestion "Replace    *)
(* nested loop search with hash map" at line L.  Two nested Python loops   *)
(* around an == test refute it: hasNestedLoop accepts an inner header only *)
(* while its brace counter is above zero, which a text without braces      *)
(* never achieves.                                                         *)
(***************************************************************************)
AIKnown == pc \in {"deduplicateSuggestions", "done"}

\* line m lies in the body of the header on line l: by indentation under the
\* python tag, by the braces still open under the C-family tags
InsideBody(l, m) ==
  /\ l < m
  /\ IF thisLanguage = "python"
     THEN \A u \in (l + 1)..m : Indent(thisLines[l]) < Indent(thisLines[u])
     ELSE \A u \in l..(m - 1) : BraceCountAfter(l, u) > 0

SearchTokenFrom(l) ==
  \E k \in l..Min(l + LoopContextWindow - 1, Len(thisLines)) :
     \/ Includes(ToLowerCase(thisLines[k]), "==")
     \/ Includes(ToLowerCase(thisLines[k]), "find")
     \/ Includes(ToLowerCase(thisLines[k]), "search")

NestedSearchAt(l) ==
  /\ isLoop(thisLanguage, TrimmedLine(l))
  /\ \E m \in (l + 1)..Min(l + NestedLoopWindow - 1, Len(thisLines)) :
        isLoop(thisLanguage, TrimmedLine(m)) /\ InsideBody(l, m)
  /\ SearchTokenFrom(l)

C22_NestedSearchGetsHashMap ==
  (AIKnown /\ thisLanguage \in LoopPatternKeys) =>
     \A l \in 1..Len(thisLines) :
        NestedSearchAt(l) =>
           \E k \in 1..Len(aiSuggestions) :
              /\ aiSuggestions[k].line = l
              /\ aiSuggestions[k].title = HashMapTitle
              /\ aiSuggestions[k].priority = "high"

(***************************************************************************)
(* C23.  Search shape: for every loop-header line L that contains == and   *)
(* every line M at most 5 lines before or after L that mentions sorted or  *)
(* ascending in any letter case, the Optimizer emits the high-priority     *)
(* suggestion "Use binary search for sorted arrays" at L; it emits none    *)
(* when every mention is more than 5 lines away.  A mention exactly 5      *)
(* lines after the header refutes it: the context is                       *)
(* lines.slice(index - 5, index + 5), which ends 4 lines after the header. *)
(***************************************************************************)
BinarySearchTitle == "Use binary search for sorted arrays"

MentionsSorted(m) ==
  \/ Includes(ToLowerCase(thisLines[m]), "sorted")
  \/ Includes(ToLowerCase(thisLines[m]), "ascending")

EqualityLoop(l) == isLoop(thisLanguage, thisLines[l]) /\ Includes(thisLines[l], "==")

Distance(l, m) == IF l >= m THEN l - m ELSE m - l

BinarySearchAt(l) ==
  \E k \in 1..Len(aiSuggestions) :
     /\ aiSuggestions[k].line = l
     /\ aiSuggestions[k].title = BinarySearchTitle
     /\ aiSuggestions[k].priority = "high"

C23_SortedMentionWithinFive ==
  AIKnown =>
     \A l \in 1..Len(thisLines) :
        EqualityLoop(l) =>
           /\ (\E m \in 1..Len(thisLines) : MentionsSorted(m) /\ Distance(l, m) <= SortedWindow)
                 => BinarySearchAt(l)
           /\ (\A m \in 1..Len(thisLines) : MentionsSorted(m) => Distance(l, m) > SortedWindow)
                 => ~BinarySearchAt(l)

(***************************************************************************)
(* C24.  Recursion shape: the Optimizer emits "Implement memoization for   *)
(* recursive function" at line L only if L is a function-definition line   *)
(* and the 10 lines from L on contain fibonacci, or both n-1 and n-2; a    *)
(* loop header or an if header never receives it.  A for-header followed   *)
(* by a fibonacci call refutes it: isRecursiveFunction accepts every line  *)
(* that holds "(", ")" and "{".                                            *)
(***************************************************************************)
LoopOrIfHeader(line) ==
  \/ CFamilyLoopRegex(line)
  \/ PythonLoopRegex(line)
  \/ LiteralAt(line, 1, "if(")
  \/ LiteralAt(line, 1, "if ")

FibonacciTokensFrom(l) ==
  LET window == l..Min(l + FibonacciWindow - 1, Len(thisLines))
      body == Join([k \in 1..Cardinality(window) |-> thisLines[l + k - 1]], " ")
  IN \/ Includes(body, "fibonacci")
     \/ (Includes(body, "n-1") /\ Includes(body, "n-2"))

C24_MemoizationOnlyAtDefinitions ==
  AIKnown =>
     \A k \in 1..Len(aiSuggestions) :
        aiSuggestions[k].title = MemoizationTitle =>
           /\ aiSuggestions[k].line \in 1..Len(thisLines)
           /\ FibonacciTokensFrom(aiSuggestions[k].line)
           /\ ~LoopOrIfHeader(TrimmedLine(aiSuggestions[k].line))

(***************************************************************************)
(* C25.  Generic fallback: every line record of severity high with no      *)
(* nested or recursion suggestion of the Detector at its line number has   *)
(* exactly one suggestion "Simplify complex operation" (refactor, medium); *)
(* a line that has such a Detector suggestion has none; so every line of   *)
(* severity high has a suggestion at its line in the final list.           *)
(***************************************************************************)
SimplifyTitle == "Simplify complex operation"

BasicKnown == pc \in {"generateEducationalContent", "calculateOverallComplexity",
                      "generateAISuggestions", "deduplicateSuggestions", "done"}

PatternSuggestionOn(i) ==
  \E k \in 1..Len(basicSuggestions) :
     basicSuggestions[k].line = i /\ basicSuggestions[k].title # SimplifyTitle

SimplifyOn(i) ==
  {k \in 1..Len(basicSuggestions) :
     basicSuggestions[k].line = i /\ basicSuggestions[k].title = SimplifyTitle}

C25_FallbackByLineNumber ==
  BasicKnown =>
     \A i \in 1..Len(lineByLine) :
        /\ (lineByLine[i].severity = "high" /\ ~PatternSuggestionOn(i)) =>
              /\ Cardinality(SimplifyOn(i)) = 1
              /\ \A k \in SimplifyOn(i) :
                    /\ basicSuggestions[k].priority = "medium"
                    /\ basicSuggestions[k].type = "refactor"
        /\ (lineByLine[i].severity # "high" \/ PatternSuggestionOn(i)) => SimplifyOn(i) = {}
        /\ (pc = "done" /\ lineByLine[i].severity = "high") =>
              \E k \in 1..Len(suggestions) : suggestions[k].line = i

\* one call line with its recursion suggestion and no fallback, another
\* inside a nested region with the fallback only
C25_Witness ==
  /\ pc = "done"
  /\ \E i \in 1..Len(lineByLine) :
        lineByLine[i].severity = "high" /\ PatternSuggestionOn(i) /\ SimplifyOn(i) = {}
  /\ \E i \in 1..Len(lineByLine) :
        lineByLine[i].severity = "high" /\ ~PatternSuggestionOn(i) /\ SimplifyOn(i) # {}

(***************************************************************************)
(* C26.  Optimizer independence: for a given text and tag the list that    *)
(* generateAISuggestions returns is the same whatever analysis (patterns,  *)
(* line records, score, suggestions) was passed to the constructor.        *)
(***************************************************************************)
C26_OptimizerIgnoresAnalysis ==
  AIKnown =>
     /\ aiSuggestions = generateAISuggestions(code, language)
     /\ aiSuggestions = analyzeNestedLoops(thisLanguage, thisLines)
                          \o analyzeRecursionPatterns(thisLines)
                          \o analyzeDataStructureUsage(thisLines)
                          \o analyzeSearchPatterns(thisLanguage, thisLines)
                          \o analyzeSortingPatterns(thisLanguage, thisLines)
                          \o analyzeStringOperations(thisLanguage, thisLines)
                          \o analyzeMemoryOptimizations(thisLines)

\* the analysis handed over is that of another text and has a Detector
\* suggestion on a line for which the Optimizer has one too
C26_Witness ==
  /\ AIKnown
  /\ patterns # detectPatterns(thisLanguage, thisLines)
  /\ \E k \in 1..Len(aiSuggestions), j \in 1..Len(basicSuggestions) :
        aiSuggestions[k].line = basicSuggestions[j].line

(***************************************************************************)
(* C27.  overall.time is O(1), O(2^n) or O(n^k) with k >= 2, never O(n) or *)
(* O(n log n); it is O(1) exactly when there is no pattern, which is       *)
(* exactly when the score is 100; the score is a multiple of 20.           *)
(***************************************************************************)
PolynomialLabels == {"O(n^" \o NatToString(k) \o ")" : k \in 2..(Len(thisLines) + 1)}

C27_TimeLabelsAndScoreSteps ==
  OverallKnown =>
     /\ overall.time \in {"O(1)", "O(2^n)"} \cup PolynomialLabels
     /\ overall.time \notin {"O(n)", "O(n log n)", "O(n^1)"}
     /\ (overall.time = "O(1)") <=> (patterns = <<>>)
     /\ (patterns = <<>>) <=> (overall.score = 100)
     /\ overall.score % 20 = 0

\* three nested headers: O(n^3) and 100 - 60
C27_Witness ==
  /\ pc = "done"
  /\ overall.time = "O(n^3)"
  /\ overall.score = 40
  /\ Len(patterns) = 1

(***************************************************************************)
(* C28.  Patterns and line records agree on recursion: the line record of  *)
(* every recursion pattern's line has the label O(2^n) and severity high,  *)
(* and every line record of severity high outside the nested regions has a *)
(* recursion pattern at its line.  A loop header that counts down from     *)
(* n-1 refutes the first half: its record is O(n) / medium by the loop     *)
(* rule, while detectPatterns, finding no nested loop there, goes on to    *)
(* the recursion test and emits a recursion pattern for it.                *)
(***************************************************************************)
InNestedRegion(i) ==
  \E k \in 1..Len(patterns) :
     /\ PatternAt(k).type = "nested"
     /\ PatternAt(k).startLine <= i
     /\ i <= PatternAt(k).endLine

C28_RecursionPatternsMatchRecords ==
  PatternsKnown =>
     /\ \A k \in 1..Len(patterns) :
           PatternAt(k).type = "recursion" =>
              LabelOf(PatternAt(k).startLine) = <<"O(2^n)", "high">>
     /\ \A i \in 1..Len(lineByLine) :
           (lineByLine[i].severity = "high" /\ ~InNestedRegion(i)) =>
              \E k \in 1..Len(patterns) :
                 PatternAt(k).type = "recursion" /\ PatternAt(k).startLine = i

(***************************************************************************)
(* C29.  The Detector's suggestions followed by the Optimizer's never hold *)
(* two entries with the same (line, title) pair, so deduplicateSuggestions *)
(* removes nothing: the final list is as long as the two lists together    *)
(* and holds the same entries.                                             *)
(***************************************************************************)
C29_MergeRemovesNothing ==
  /\ AIKnown =>
        \A i \in 1..Len(MergedInput), j \in 1..Len(MergedInput) :
           (i # j) => ~SamePair(MergedInput[i], MergedInput[j])
  /\ (pc = "done") =>
        /\ Len(suggestions) = Len(basicSuggestions) + Len(aiSuggestions)
        /\ \A i \in 1..Len(MergedInput) :
              \E k \in 1..Len(suggestions) : suggestions[k] = MergedInput[i]

\* the Detector and the Optimizer both have a suggestion for one line, and
\* both are in the final list
C29_Witness ==
  /\ pc = "done"
  /\ \E i \in 1..Len(basicSuggestions), j \in 1..Len(aiSuggestions) :
        basicSuggestions[i].line = aiSuggestions[j].line
  /\ Len(basicSuggestions) >= 2
  /\ Len(aiSuggestions) >= 1
  /\ Len(suggestions) = Len(basicSuggestions) + Len(aiSuggestions)

(***************************************************************************)
(* C30.  A new analysis is started only while isAnalyzing is false, so at  *)
(* most one call of handleAnalyze is pending at any time; a call that was  *)
(* started sets analysis, when it resumes after the delay, to the result   *)
(* for the text and the language it was started with, whatever the text    *)
(* area and the language selector hold by then, and sets isAnalyzing to    *)
(* false.                                                                  *)
(***************************************************************************)
Starts == Len(pending') > Len(pending)

Resumes == Len(pending') < Len(pending)

C30_OnePendingCallDeliversItsArguments ==
  /\ [](/\ Len(pending) <= 1
        /\ isAnalyzing <=> (pending # <<>>))
  /\ [][Starts => /\ ~isAnalyzing
                  /\ isAnalyzing'
                  /\ pending' = <<[code |-> inputCode, language |-> selectedLanguage]>>]_vars
  /\ [][Resumes => /\ analysis' = analyze(pending[1].code, pending[1].language)
                   /\ ~isAnalyzing']_vars

\* a call has resumed after the text area or the selector was changed during
\* its delay, and the page shows the result for what the call was started with
C30_Witness ==
  /\ delivered.any
  /\ delivered.edited
  /\ ~isAnalyzing
  /\ Trim(inputCode) # ""
  /\ inputCode # delivered.code
  /\ analysis = analyze(delivered.code, delivered.language)
  /\ analysis # analyze(inputCode, selectedLanguage)

====
